---- MODULE Spec2Model ----
(***************************************************************************)
(* The agent runtime of the goose crates: the reply loop of DefaultAgent   *)
(* and ReferenceAgent (crates/goose/src/agents), the context budgeter      *)
(* prepare_inference, and the CLI session that consumes the reply stream   *)
(* (crates/goose-cli/src/session/session.rs).  Further units are verified  *)
(* on their own, each under its own specification:                         *)
(*   SpecBudget     one call of prepare_inference                          *)
(*   SpecStdio      the stdio transport actor (mcp-client transport/stdio.rs) *)
(*   SpecRewind     Session::rewind_messages                               *)
(*   SpecInterrupt  the session's reply under Ctrl-C                       *)
(*   SpecRoutes     the agent routes of goose-server                       *)
(*   SpecEditor     the text editor of the developer tools                 *)
(*   SpecEditorFiles  the same with status() and files removed outside   *)
(*   SpecStdioLive  the stdio actor with its reader scheduled              *)
(*   SpecTransportLive  the StdioTransport with its tasks scheduled        *)
(*   SpecView       the text editor's view command and its size limits     *)
(*   SpecLock       the capabilities lock of DefaultAgent                  *)
(*   SpecTransport  the channel-based StdioTransport (stdio_transport.rs)  *)
(*   SpecBuild      build_session of goose-cli                             *)
(***************************************************************************)
EXTENDS Naturals, Integers, Sequences, FiniteSets, TLC

\* ------------------------------------------------------------------ bounds

\* provider.complete calls one reply may make before the model stops it
MaxTurns == 2
\* content blocks in one assistant message returned by the provider
MaxBlocks == 2

\* ------------------------------------------------------------- data model

\* Request ids the provider allocates; "000" is also the id the budgeter
\* gives its status pair.
Ids == {"000", "a1"}

\* Prefixed tool names the provider may call.  Dispatching math__add
\* succeeds, dispatching math__div fails with an execution error.
ToolNames == {"math__add", "math__div"}

NoCall == [ok |-> FALSE, name |-> "-"]
NoResult == [ok |-> FALSE, of |-> "-", dump |-> <<>>]

\* tool_call: Result<ToolCall, ToolError>
OkCall(n) == [ok |-> TRUE, name |-> n]
ErrCall == [ok |-> FALSE, name |-> "invalid"]

\* MessageContent::Text / ToolRequest / ToolResponse
TextBlock == [type |-> "text", id |-> "-", call |-> NoCall, result |-> NoResult]
ToolRequestBlock(id, call) ==
    [type |-> "tool_request", id |-> id, call |-> call, result |-> NoResult]
ToolResponseBlock(id, result) ==
    [type |-> "tool_response", id |-> id, call |-> NoCall, result |-> result]

\* Message::user() / Message::assistant() with content
Msg(role, content) == [role |-> role, content |-> content]
UserText == Msg("user", <<TextBlock>>)
NoMsg == Msg("-", <<>>)

\* Items of the reply stream: Ok(message) or Err(e)
MsgItem(m) == [kind |-> "msg", msg |-> m, err |-> "-"]
ErrItem(e) == [kind |-> "err", msg |-> NoMsg, err |-> e]
NoItem == [kind |-> "none", msg |-> NoMsg, err |-> "-"]

\* --------------------------------------------------------- sequence helpers

RECURSIVE SelectBlocks(_, _)
\* the blocks of s whose type is t, in order
SelectBlocks(s, t) ==
    IF s = <<>> THEN <<>>
    ELSE IF Head(s).type = t
         THEN <<Head(s)>> \o SelectBlocks(Tail(s), t)
         ELSE SelectBlocks(Tail(s), t)

RECURSIVE SelectOkCalls(_)
\* the valid calls of a sequence of tool requests, in order
SelectOkCalls(reqs) ==
    IF reqs = <<>> THEN <<>>
    ELSE IF Head(reqs).call.ok
         THEN <<Head(reqs).call>> \o SelectOkCalls(Tail(reqs))
         ELSE SelectOkCalls(Tail(reqs))

Min(a, b) == IF a <= b THEN a ELSE b

Front(s) == SubSeq(s, 1, Len(s) - 1)
Last(s) == s[Len(s)]

RECURSIVE SumTokens(_)
SumTokens(s) == IF s = <<>> THEN 0 ELSE Head(s) + SumTokens(Tail(s))

\* ------------------------------------------------------------- token counter

\* Tokens of the system prompt plus the tool definitions.
BaselineTokens == 1

\* TokenCounter::count_tokens of one message: one token per content block.
TokensOfMessage(m) == Len(m.content)

\* TokenCounter::count_everything(system_prompt, messages, tools, resources)
count_everything(msgs, resources) ==
    BaselineTokens
    + SumTokens([i \in 1..Len(msgs) |-> TokensOfMessage(msgs[i])])
    + SumTokens([i \in 1..Len(resources) |-> resources[i].tokens])

\* ------------------------------------------------------------------ resources

\* Priorities are in units of 0.0005, so that two priorities can differ
\* by less than PRIORITY_EPSILON (0.001 = 2 units) without being equal.
PRIORITY_EPSILON == 2

\* capabilities.provider().get_model_config().get_estimated_limit()
target_limit == 9

Res(uri, priority, timestamp, tokens) ==
    [uri |-> uri, priority |-> priority, timestamp |-> timestamp, tokens |-> tokens]

ResA == Res("a", 1800, 0, 2)
ResB == Res("b", 1000, 1, 2)
ResC == Res("c", 1001, 2, 2)

\* What capabilities.get_resources() may return, in the iteration order
\* of the hash maps: nothing, or three resources.
ResourceChoices == { <<>>, <<ResB, ResC, ResA>> }

Abs(x) == IF x < 0 THEN 0 - x ELSE x

\* the comparator of all_resources.sort_by returns Ordering::Less for (a, b)
ResourceLess(a, b) ==
    IF Abs(b.priority - a.priority) < PRIORITY_EPSILON
    THEN b.timestamp < a.timestamp
    ELSE b.priority < a.priority

RECURSIVE InsertTail(_, _)
\* insertion of x at the tail of the sorted prefix (slice::sort_by on a
\* short slice is a stable insertion sort)
InsertTail(sorted, x) ==
    IF sorted = <<>> \/ ~ResourceLess(x, Last(sorted))
    THEN Append(sorted, x)
    ELSE Append(InsertTail(Front(sorted), x), Last(sorted))

RECURSIVE SortResources(_)
SortResources(s) ==
    IF s = <<>> THEN <<>>
    ELSE InsertTail(SortResources(Front(s)), Last(s))

RECURSIVE TrimResourcesAtLeast(_, _)
\* Variant of TrimResources: the loop also runs when the estimate equals
\* the limit.
TrimResourcesAtLeast(all, current_tokens) ==
    IF current_tokens >= target_limit /\ all # <<>>
    THEN TrimResourcesAtLeast(Front(all), current_tokens - Last(all).tokens)
    ELSE all

RECURSIVE TrimResources(_, _)
\* while current_tokens > target_limit && !all_resources.is_empty() { pop }
TrimResources(all, current_tokens) ==
    IF current_tokens > target_limit /\ all # <<>>
    THEN TrimResources(Front(all), current_tokens - Last(all).tokens)
    ELSE all

\* The resources whose content goes into the status message.
SurvivingResources(msgs, resources) ==
    LET approx_count == count_everything(msgs, resources)
    IN IF approx_count > target_limit
       THEN TrimResources(SortResources(resources), approx_count)
       ELSE resources

\* The status pair: assistant ToolRequest "000" calling "status", then a
\* user ToolResponse "000" carrying the resource dump.
StatusRequest == Msg("assistant", <<ToolRequestBlock("000", OkCall("status"))>>)
StatusResponse(dump) ==
    Msg("user", <<ToolResponseBlock("000", [ok |-> TRUE, of |-> "status", dump |-> dump])>>)

\* Variant of prepare_inference: the status message is built from every
\* resource, trimmed or not.
prepare_inference_untrimmed(msgs, pending, resources) ==
    LET dump == [i \in 1..Len(resources) |-> resources[i].uri]
        new_messages == msgs \o pending
    IN IF dump # <<>>
       THEN new_messages \o <<StatusRequest, StatusResponse(dump)>>
       ELSE new_messages

\* DefaultAgent::prepare_inference
prepare_inference(msgs, pending, resources) ==
    LET surviving == SurvivingResources(msgs, resources)
        dump == [i \in 1..Len(surviving) |-> surviving[i].uri]
        new_messages == msgs \o pending
    IN IF dump # <<>>
       THEN new_messages \o <<StatusRequest, StatusResponse(dump)>>
       ELSE new_messages

\* ------------------------------------------------------------ provider, tools

Blocks ==
    {TextBlock} \cup
    {ToolRequestBlock(id, c) : id \in Ids, c \in {OkCall(n) : n \in ToolNames} \cup {ErrCall}}

\* Provider contract: the tool_request blocks of one message carry unique ids.
UniqueRequestIds(c) ==
    \A i, j \in 1..Len(c) :
        (i # j /\ c[i].type = "tool_request" /\ c[j].type = "tool_request")
            => c[i].id # c[j].id

\* The assistant messages enumerated put a text block, when there is one,
\* before the tool requests (the loop filters the requests out of the
\* content, so the position of a text block changes nothing it does).
TextLeads(c) == \A i \in 2..Len(c) : c[i].type = "tool_request"

\* The assistant messages provider.complete may return.
ProviderMessages ==
    { Msg("assistant", c) :
        c \in { d \in UNION {[1..n -> Blocks] : n \in 0..MaxBlocks} :
                    UniqueRequestIds(d) /\ TextLeads(d) } }

\* The errors provider.complete may return.
ProviderErrors == {"ContextLengthExceeded", "Upstream"}

\* capabilities.dispatch_tool_call(tool_call): the output names the call
\* it answers; math__div fails with an execution error.
dispatch_tool_call(call) ==
    [ok |-> call.name # "math__div", of |-> call.name, dump |-> <<>>]

PendingOutput == [ok |-> FALSE, of |-> "pending", dump |-> <<>>]

\* response.content.iter().filter_map(|content| content.as_tool_request())
tool_requests_of(resp) == SelectBlocks(resp.content, "tool_request")

\* tool_requests.iter().filter_map(|request| request.tool_call.clone().ok())
futures_of(reqs) == SelectOkCalls(reqs)

\* Variant of NoToolRequests: the loop never breaks.
NeverBreaks(reqs) == FALSE

\* tool_requests.is_empty(): the loop breaks
NoToolRequests(reqs) == reqs = <<>>

\* Variant of AllJoined: the wait ends with the first output.
AnyJoined(outs) == outs = <<>> \/ \E i \in 1..Len(outs) : outs[i] # PendingOutput

\* join_all(futures).await has completed: every future has its output
AllJoined(outs) == \A i \in 1..Len(outs) : outs[i] # PendingOutput

\* Variant of BuildToolResponse that labels each response with the name of
\* the tool that produced the output instead of the request's id.
BuildToolResponseByName(reqs, outs) ==
    Msg("user", [i \in 1..Min(Len(reqs), Len(outs)) |->
                    ToolResponseBlock(outs[i].of, outs[i])])

\* for (request, output) in tool_requests.iter().zip(outputs.into_iter())
\*     message_tool_response.with_tool_response(request.id.clone(), output)
BuildToolResponse(reqs, outs) ==
    Msg("user", [i \in 1..Min(Len(reqs), Len(outs)) |->
                    ToolResponseBlock(reqs[i].id, outs[i])])

\* messages.pop(); messages.pop();
PopTwice(msgs) == IF Len(msgs) <= 2 THEN <<>> ELSE SubSeq(msgs, 1, Len(msgs) - 2)

\* The strip step reads message.content[0] of the last message: it panics
\* when that message has no content.
StripPanics(msgs) == msgs # <<>> /\ Last(msgs).content = <<>>

\* Remove the previous status tool use and tool response.
StripStatus(msgs) ==
    IF msgs # <<>>
       /\ Last(msgs).content # <<>>
       /\ Last(msgs).content[1].type = "tool_response"
       /\ Last(msgs).content[1].id = "000"
    THEN PopTwice(msgs)
    ELSE msgs

\* ------------------------------------------------------------------- session

\* mpsc::channel::<Option<Result<Message>>>(1)
ChannelCapacity == 1

\* persist_messages(&self.session_file, &self.messages): the journal holds
\* the messages, one per line.
persist_messages(msgs) == msgs

\* The histories a session may be resumed with.
InitialHistories == { <<>>, <<UserText, Msg("assistant", <<TextBlock>>)>> }

\* --------------------------------------------------------------------- state

VARIABLES
    agent,                  \* "default" or "reference": the agent that replies
    sessPc,                 \* the session: "prompt", "receiving", "idle"
    history,                \* Session.messages
    journal,                \* the persisted session file
    chan,                   \* the mpsc channel from the agent task to the session
    sending,                \* the item the agent task is sending (tx.send), or NoItem
    pc,                     \* position of the reply: see the actions
    messages,               \* the working history of the reply loop
    response,               \* the assistant message of the current turn
    outputs,                \* outputs of the turn's dispatch futures
    doneOrder,              \* order in which the turn's futures completed
    message_tool_response,  \* the tool-response message of the current turn
    yielded,                \* every item the reply stream has yielded
    turns                   \* provider.complete calls made by this reply

replyVars == <<agent, sessPc, history, journal, chan, sending, pc, messages, response,
               outputs, doneOrder, message_tool_response, yielded, turns>>

\* The units that are also verified on their own: one call of
\* prepare_inference, the stdio transport actor, Session::rewind_messages.
VARIABLES
    callMessages,           \* prepare_inference: the argument messages
    callPending,            \* prepare_inference: the argument pending
    callResources,          \* prepare_inference: resource_content, flattened in map order
    prepared,               \* prepare_inference: the returned Vec<Message>
    budgetPc                \* "idle", "called", "returned"

budgetVars == <<callMessages, callPending, callResources, prepared, budgetPc>>

VARIABLES
    actorPc,                \* StdioActor::run: "unspawned", "running", "returned"
    handleAlive,            \* some StdioTransportHandle (a Sender) is alive
    callerState,            \* per caller of send: "idle", "waiting", "answered", "failed", "closed", "gone"
    callerGot,              \* per caller: the id of the response it received, or NoId
    sendQueue,              \* the mpsc channel from the handles to the actor
    pending_requests,       \* the pending-requests map: id -> the caller holding the receiver
    writerPc,               \* handle_outgoing_messages: "recv", "write", "done"
    writerMsg,              \* the request the writer is writing, or NoId
    readerPc,               \* handle_incoming_messages: "reading", "done"
    childState,             \* the child process: "running", "exited", "killed"
    childIn,                \* ids of the requests written to the child's stdin
    childOut,               \* lines on the child's stdout, not yet read
    emitted,                \* lines the child has written so far
    removed,                \* per id: how often it was removed from the map
    answered                \* per caller: how often its one-shot sender was used

stdioVars == <<actorPc, handleAlive, callerState, callerGot, sendQueue, pending_requests,
               writerPc, writerMsg, readerPc, childState, childIn, childOut, emitted,
               removed, answered>>

VARIABLES
    rewindFrom,             \* Session.messages when rewind_messages was called
    rewindPc                \* "idle", "called", "returned"

rewindVars == <<rewindFrom, rewindPc>>

\* ------------------------------------------------- variables of further units

\* The session under Ctrl-C.
VARIABLES
    startHistory            \* Session.messages when the session was set up

interruptVars == <<startHistory>>

\* The agent routes of the HTTP service.
VARIABLES
    storedAgent,            \* AppState.agent
    request,                \* the request served last
    status                  \* the status it was answered with

routesVars == <<storedAgent, request, status>>

\* The text editor of the developer tools, on one path.
VARIABLES
    implementation,         \* DeveloperSystem (goose) or DeveloperRouter (goose-mcp)
    fileExists,             \* path.exists()
    fileText,               \* the content of the file at the path
    file_history,           \* file_history[path], oldest first
    active,                 \* the path's URI is a key of active_resources
    command,                \* the text_editor command run last, with its old_str
    editResult,             \* what that command returned
    edits                   \* contents before each successful edit not yet undone

editorVars == <<implementation, fileExists, fileText, file_history, active, command,
                 editResult, edits>>

\* The view command of the text editor and the size of the file.
VARIABLES
    viewed,                 \* the file the last view was called on
    active_resources,       \* the URIs in DeveloperSystem.active_resources
    viewResult              \* what the last view returned

viewVars == <<viewed, active_resources, viewResult>>

\* The capabilities lock of DefaultAgent.
VARIABLES
    capabilitiesLock,       \* who holds self.capabilities: "free", "reply" or a call
    streamPc,               \* where reply and its stream stand
    rounds,                 \* tool rounds the stream has been through
    callPc,                 \* where each concurrent call stands
    systems                 \* the systems registered in the capabilities

lockVars == <<capabilitiesLock, streamPc, rounds, callPc, systems>>

\* The channel-based StdioTransport (mcp-client/src/stdio_transport.rs).
VARIABLES
    tChild,                 \* the child process: "none", "running" or its exit status
    tStdout,                \* lines the child wrote that the reader task has not read
    wrote,                  \* how many lines the child has written
    rx_read,                \* the items queued on the read channel
    rxOpen,                 \* the read stream has not been dropped
    rx_write,               \* the messages queued on the write channel
    txOpen,                 \* the write stream has not been dropped
    monitorPc,              \* the child monitor task
    readerTask,             \* the stdout reader task
    writerTask,             \* the stdin writer task
    delivered,              \* what the read stream has delivered, in order
    stdinGot                \* how many messages were written to the child's stdin

transportVars == <<tChild, tStdout, wrote, rx_read, rxOpen, rx_write, txOpen,
                    monitorPc, readerTask, writerTask, delivered, stdinGot>>

\* build_session of the command line (goose-cli/src/commands/session.rs).
VARIABLES
    session,                \* the session name given, or NoName
    resume,                 \* the resume flag
    existing,               \* the names whose session files exist
    buildPc,                \* where build_session stands
    session_file,           \* the session file chosen
    attempts                \* failed attempts of generate_new_session_path

buildVars == <<session, resume, existing, buildPc, session_file, attempts>>

moreUnitVars == <<interruptVars, routesVars, editorVars, viewVars, lockVars,
                  transportVars, buildVars>>

besidesInterrupt == <<budgetVars, stdioVars, rewindVars, routesVars, editorVars,
                       viewVars, lockVars, transportVars, buildVars>>
besidesRoutes == <<budgetVars, stdioVars, rewindVars, interruptVars, editorVars,
                    viewVars, lockVars, transportVars, buildVars>>
besidesEditor == <<budgetVars, stdioVars, rewindVars, interruptVars, routesVars,
                    viewVars, lockVars, transportVars, buildVars>>
besidesView == <<budgetVars, stdioVars, rewindVars, interruptVars, routesVars,
                  editorVars, lockVars, transportVars, buildVars>>
besidesLock == <<budgetVars, stdioVars, rewindVars, interruptVars, routesVars,
                  editorVars, viewVars, transportVars, buildVars>>
besidesTransport == <<budgetVars, stdioVars, rewindVars, interruptVars, routesVars,
                       editorVars, viewVars, lockVars, buildVars>>
besidesBuild == <<budgetVars, stdioVars, rewindVars, interruptVars, routesVars,
                   editorVars, viewVars, lockVars, transportVars>>

\* ------------------------------------------ end of further units' variables

unitVars == <<budgetVars, stdioVars, rewindVars, moreUnitVars>>

vars == <<replyVars, unitVars>>

sessionVars == <<sessPc, history, journal, chan>>
turnVars == <<response, outputs, doneOrder, message_tool_response>>

\* No call of prepare_inference is being verified on its own.
BudgetIdle ==
    /\ callMessages = <<>>
    /\ callPending = <<>>
    /\ callResources = <<>>
    /\ prepared = <<>>
    /\ budgetPc = "idle"

\* No stdio transport has been started.
StdioIdle ==
    /\ actorPc = "unspawned"
    /\ handleAlive = FALSE
    /\ callerState = <<>>
    /\ callerGot = <<>>
    /\ sendQueue = <<>>
    /\ pending_requests = <<>>
    /\ writerPc = "recv"
    /\ writerMsg = 0
    /\ readerPc = "reading"
    /\ childState = "exited"
    /\ childIn = {}
    /\ childOut = <<>>
    /\ emitted = 0
    /\ removed = <<>>
    /\ answered = <<>>

\* rewind_messages is not being verified on its own.
RewindIdle ==
    /\ rewindFrom = <<>>
    /\ rewindPc = "idle"

\* ---------------------------------------------------- values of the agent routes

NoAgent == [version |-> "none", provider |-> "none"]
NoHeader == "absent"
NoBody == [kind |-> "none", provider |-> "none", version |-> "none"]
NoRequest == [route |-> "none", header |-> NoHeader, body |-> NoBody]
NoStatus == 0

\* ----------------------------------------------------- values of the text editor

NoCommand == [name |-> "none", old_str |-> <<>>]

\* ----------------------------------------------------- values of the view command

NoFile == [is_file |-> FALSE, bytes |-> 0, utf8 |-> TRUE, chars |-> 0]
NoViewResult == [kind |-> "none", message |-> ""]

\* --------------------------------------------------- values of the capabilities lock

AgentCalls == {"add_system", "remove_system", "list_systems", "usage"}

\* ------------------------------------------------ values of the channel transport

NoChild == [state |-> "none", status |-> 0]

\* ------------------------------------------------------- values of build_session

NoName == "None"

\* ----------------------------------------------- idle states of further units

InterruptIdle ==
    /\ startHistory = <<>>

RoutesIdle ==
    /\ storedAgent = NoAgent
    /\ request = NoRequest
    /\ status = NoStatus

EditorIdle ==
    /\ implementation = "DeveloperSystem"
    /\ fileExists = FALSE
    /\ fileText = <<>>
    /\ file_history = <<>>
    /\ active = FALSE
    /\ command = NoCommand
    /\ editResult = "none"
    /\ edits = <<>>

ViewIdle ==
    /\ viewed = NoFile
    /\ active_resources = {}
    /\ viewResult = NoViewResult

LockIdle ==
    /\ capabilitiesLock = "free"
    /\ streamPc = "none"
    /\ rounds = 0
    /\ callPc = [o \in AgentCalls |-> "idle"]
    /\ systems = {}

TransportIdle ==
    /\ tChild = NoChild
    /\ tStdout = <<>>
    /\ wrote = 0
    /\ rx_read = <<>>
    /\ rxOpen = FALSE
    /\ rx_write = <<>>
    /\ txOpen = FALSE
    /\ monitorPc = "none"
    /\ readerTask = "none"
    /\ writerTask = "none"
    /\ delivered = <<>>
    /\ stdinGot = 0

BuildIdle ==
    /\ session = NoName
    /\ resume = FALSE
    /\ existing = {}
    /\ buildPc = "none"
    /\ session_file = NoName
    /\ attempts = 0

MoreUnitsIdle == InterruptIdle /\ RoutesIdle /\ EditorIdle /\ ViewIdle /\ LockIdle /\ TransportIdle /\ BuildIdle

IdleBesidesInterrupt == BudgetIdle /\ StdioIdle /\ RewindIdle /\ RoutesIdle /\ EditorIdle /\ ViewIdle /\ LockIdle /\ TransportIdle /\ BuildIdle
IdleBesidesRoutes == BudgetIdle /\ StdioIdle /\ RewindIdle /\ InterruptIdle /\ EditorIdle /\ ViewIdle /\ LockIdle /\ TransportIdle /\ BuildIdle
IdleBesidesEditor == BudgetIdle /\ StdioIdle /\ RewindIdle /\ InterruptIdle /\ RoutesIdle /\ ViewIdle /\ LockIdle /\ TransportIdle /\ BuildIdle
IdleBesidesView == BudgetIdle /\ StdioIdle /\ RewindIdle /\ InterruptIdle /\ RoutesIdle /\ EditorIdle /\ LockIdle /\ TransportIdle /\ BuildIdle
IdleBesidesLock == BudgetIdle /\ StdioIdle /\ RewindIdle /\ InterruptIdle /\ RoutesIdle /\ EditorIdle /\ ViewIdle /\ TransportIdle /\ BuildIdle
IdleBesidesTransport == BudgetIdle /\ StdioIdle /\ RewindIdle /\ InterruptIdle /\ RoutesIdle /\ EditorIdle /\ ViewIdle /\ LockIdle /\ BuildIdle
IdleBesidesBuild == BudgetIdle /\ StdioIdle /\ RewindIdle /\ InterruptIdle /\ RoutesIdle /\ EditorIdle /\ ViewIdle /\ LockIdle /\ TransportIdle

\* ---------------------------------------- end of further units' idle states

UnitsIdle == BudgetIdle /\ StdioIdle /\ RewindIdle /\ MoreUnitsIdle

\* No session is running: the state the reply variables keep while a unit
\* is verified on its own.
ReplyIdle ==
    /\ agent = "default"
    /\ sessPc = "idle"
    /\ history = <<>>
    /\ journal = <<>>
    /\ chan = <<>>
    /\ sending = NoItem
    /\ pc = "NotStarted"
    /\ messages = <<>>
    /\ response = NoMsg
    /\ outputs = <<>>
    /\ doneOrder = <<>>
    /\ message_tool_response = NoMsg
    /\ yielded = <<>>
    /\ turns = 0

\* Session::new with either agent: the session is at its prompt, no reply
\* is running.
ReplyInit ==
    /\ agent \in {"default", "reference"}
    /\ sessPc = "prompt"
    /\ history \in InitialHistories
    /\ journal = persist_messages(history)
    /\ chan = <<>>
    /\ sending = NoItem
    /\ pc = "NotStarted"
    /\ messages = <<>>
    /\ response = NoMsg
    /\ outputs = <<>>
    /\ doneOrder = <<>>
    /\ message_tool_response = NoMsg
    /\ yielded = <<>>
    /\ turns = 0

Init == ReplyInit /\ UnitsIdle

\* yield item: the stream hands the item to the agent task, which sends it
Yield(item) ==
    /\ yielded' = Append(yielded, item)
    /\ sending' = item

\* The generator runs only while the agent task polls stream.next().
Polled == sending = NoItem

\* ------------------------------------------------------------------- actions

\* Session::start: the user's message is pushed and persisted, then
\* agent_process_messages clones the history and spawns the agent task.
SessionInput ==
    /\ sessPc = "prompt"
    /\ history' = Append(history, UserText)
    /\ journal' = persist_messages(history')
    /\ sessPc' = "receiving"
    /\ messages' = history'
    /\ pc' = "Starting"
    /\ UNCHANGED <<unitVars, agent, chan, sending, turnVars, yielded, turns>>

\* Agent::reply up to the creation of the stream: get_prefixed_tools and
\* get_resources succeed, and DefaultAgent budgets the caller's history.
ReplyStart ==
    /\ pc = "Starting"
    /\ \E resources \in ResourceChoices :
          messages' = IF agent = "default"
                      THEN prepare_inference(messages, <<>>, resources)
                      ELSE messages
    /\ pc' = "Completing"
    /\ UNCHANGED <<unitVars, agent, sessionVars, sending, turnVars, yielded, turns>>

\* Agent::reply returns Err (get_prefixed_tools or get_resources failed):
\* the agent task reports it and returns without a stream.
ReplyStartFails ==
    /\ pc = "Starting"
    /\ pc' = "Closed"
    /\ UNCHANGED <<unitVars, agent, sessionVars, sending, messages, turnVars, yielded, turns>>

\* Variant of CompleteOk: the response is kept but not yielded before the
\* tool requests are collected.
CompleteOkUnyielded ==
    /\ pc = "Completing"
    /\ Polled
    /\ turns < MaxTurns
    /\ \E r \in ProviderMessages : response' = r
    /\ turns' = turns + 1
    /\ pc' = "YieldedAssistant"
    /\ UNCHANGED <<unitVars, agent, sessionVars, sending, messages, outputs, doneOrder,
                   message_tool_response, yielded>>

\* provider.complete returns Ok: usage is recorded and the response yielded.
CompleteOk ==
    /\ pc = "Completing"
    /\ Polled
    /\ turns < MaxTurns
    /\ \E r \in ProviderMessages :
          /\ response' = r
          /\ Yield(MsgItem(r))
    /\ turns' = turns + 1
    /\ pc' = "YieldedAssistant"
    /\ UNCHANGED <<unitVars, agent, sessionVars, messages, outputs, doneOrder, message_tool_response>>

\* Variant of CompleteErr: the error is yielded and the loop goes on.
CompleteErrContinues ==
    /\ pc = "Completing"
    /\ Polled
    /\ turns < MaxTurns
    /\ \E e \in ProviderErrors : Yield(ErrItem(e))
    /\ turns' = turns + 1
    /\ pc' = "Completing"
    /\ UNCHANGED <<unitVars, agent, sessionVars, messages, turnVars>>

\* Variant of CompleteErr: a ContextLengthExceeded error is not surfaced at
\* once, the completion is tried again.
CompleteErrRetries ==
    /\ pc = "Completing"
    /\ Polled
    /\ turns < MaxTurns
    /\ turns' = turns + 1
    /\ \/ /\ \E e \in ProviderErrors : Yield(ErrItem(e))
          /\ pc' = "Ended"
       \/ /\ UNCHANGED <<yielded, sending>>
          /\ pc' = "Completing"
    /\ UNCHANGED <<unitVars, agent, sessionVars, messages, turnVars>>

\* provider.complete returns Err: the ? operator ends the stream with it.
CompleteErr ==
    /\ pc = "Completing"
    /\ Polled
    /\ turns < MaxTurns
    /\ \E e \in ProviderErrors : Yield(ErrItem(e))
    /\ turns' = turns + 1
    /\ pc' = "Ended"
    /\ UNCHANGED <<unitVars, agent, sessionVars, messages, turnVars>>

\* After the yield of the assistant message: collect the tool requests,
\* break when there is none, else create the dispatch futures.
CollectToolRequests ==
    /\ pc = "YieldedAssistant"
    /\ Polled
    /\ IF NoToolRequests(tool_requests_of(response))
       THEN /\ pc' = "Ended"
            /\ outputs' = <<>>
       ELSE /\ pc' = "Dispatching"
            /\ outputs' = [i \in 1..Len(futures_of(tool_requests_of(response))) |-> PendingOutput]
    /\ doneOrder' = <<>>
    /\ UNCHANGED <<unitVars, agent, sessionVars, sending, messages, response,
                   message_tool_response, yielded, turns>>

\* One of the futures under join_all completes, in any order.
DispatchCompletes ==
    /\ pc = "Dispatching"
    /\ Polled
    /\ \E i \in 1..Len(outputs) :
          /\ outputs[i] = PendingOutput
          /\ outputs' = [outputs EXCEPT
                           ![i] = dispatch_tool_call(futures_of(tool_requests_of(response))[i])]
          /\ doneOrder' = Append(doneOrder, i)
    /\ UNCHANGED <<unitVars, agent, sessionVars, sending, pc, messages, response,
                   message_tool_response, yielded, turns>>

\* Variant of JoinAll: a failed output is raised out of the stream with ?.
JoinAllPropagates ==
    /\ pc = "Dispatching"
    /\ Polled
    /\ AllJoined(outputs)
    /\ IF \E i \in 1..Len(outputs) : ~outputs[i].ok
       THEN /\ Yield(ErrItem("Execution"))
            /\ pc' = "Ended"
            /\ UNCHANGED message_tool_response
       ELSE /\ message_tool_response' =
                  BuildToolResponse(tool_requests_of(response), outputs)
            /\ Yield(MsgItem(message_tool_response'))
            /\ pc' = "YieldedResponse"
    /\ UNCHANGED <<unitVars, agent, sessionVars, messages, response, outputs, doneOrder, turns>>

\* Variant of JoinAll: the last message of the working history is yielded
\* instead of the tool-response message just built.
JoinAllYieldsLast ==
    /\ pc = "Dispatching"
    /\ Polled
    /\ AllJoined(outputs)
    /\ message_tool_response' = BuildToolResponse(tool_requests_of(response), outputs)
    /\ Yield(MsgItem(Last(messages)))
    /\ pc' = "YieldedResponse"
    /\ UNCHANGED <<unitVars, agent, sessionVars, messages, response, outputs, doneOrder, turns>>

\* join_all has every output: build the tool-response message and yield it.
JoinAll ==
    /\ pc = "Dispatching"
    /\ Polled
    /\ AllJoined(outputs)
    /\ message_tool_response' = BuildToolResponse(tool_requests_of(response), outputs)
    /\ Yield(MsgItem(message_tool_response'))
    /\ pc' = "YieldedResponse"
    /\ UNCHANGED <<unitVars, agent, sessionVars, messages, response, outputs, doneOrder, turns>>

\* DefaultAgent: the strip step reads content[0] of an empty message and
\* panics; the agent task dies and tx is dropped.
StripPanic ==
    /\ pc = "YieldedResponse"
    /\ Polled
    /\ agent = "default"
    /\ StripPanics(messages)
    /\ pc' = "Closed"
    /\ UNCHANGED <<unitVars, agent, sessionVars, sending, messages, turnVars, yielded, turns>>

\* DefaultAgent: strip the status pair, then budget the next inference with
\* the turn's two messages as pending; the iteration's outputs are dropped.
NextInference ==
    /\ pc = "YieldedResponse"
    /\ Polled
    /\ agent = "default"
    /\ ~StripPanics(messages)
    /\ \E resources \in ResourceChoices :
          messages' = prepare_inference(StripStatus(messages),
                                        <<response, message_tool_response>>, resources)
    /\ outputs' = <<>>
    /\ doneOrder' = <<>>
    /\ pc' = "Completing"
    /\ UNCHANGED <<unitVars, agent, sessionVars, sending, response, message_tool_response,
                   yielded, turns>>

\* DefaultAgent: get_resources fails inside the loop; the ? operator ends
\* the stream with the error.
NextInferenceErr ==
    /\ pc = "YieldedResponse"
    /\ Polled
    /\ agent = "default"
    /\ ~StripPanics(messages)
    /\ messages' = StripStatus(messages)
    /\ Yield(ErrItem("Resources"))
    /\ pc' = "Ended"
    /\ UNCHANGED <<unitVars, agent, sessionVars, turnVars, turns>>

\* ReferenceAgent: push the response and the tool-response message; the
\* iteration's outputs are dropped.
ReferencePush ==
    /\ pc = "YieldedResponse"
    /\ Polled
    /\ agent = "reference"
    /\ messages' = messages \o <<response, message_tool_response>>
    /\ outputs' = <<>>
    /\ doneOrder' = <<>>
    /\ pc' = "Completing"
    /\ UNCHANGED <<unitVars, agent, sessionVars, sending, response, message_tool_response,
                   yielded, turns>>

\* stream.next() returns None: the agent task leaves its loop and drops tx.
StreamEnds ==
    /\ pc = "Ended"
    /\ Polled
    /\ pc' = "Closed"
    /\ UNCHANGED <<unitVars, agent, sessionVars, sending, messages, turnVars, yielded, turns>>

\* tx.send(Some(something)).await completes when the channel has room.
TaskSend ==
    /\ sending # NoItem
    /\ sessPc # "cancelled"
    /\ Len(chan) < ChannelCapacity
    /\ chan' = Append(chan, sending)
    /\ sending' = NoItem
    /\ UNCHANGED <<unitVars, agent, sessPc, history, journal, pc, messages, turnVars, yielded, turns>>

\* Variant of SessionRecv: only the assistant's messages are pushed.
SessionRecvAssistantOnly ==
    /\ sessPc = "receiving"
    /\ chan # <<>>
    /\ chan' = Tail(chan)
    /\ IF Head(chan).kind = "msg" /\ Head(chan).msg.role = "assistant"
       THEN /\ history' = Append(history, Head(chan).msg)
            /\ journal' = persist_messages(history')
       ELSE UNCHANGED <<history, journal>>
    /\ UNCHANGED <<unitVars, agent, sessPc, sending, pc, messages, turnVars, yielded, turns>>

\* Variant of SessionRecv: a received message is pushed and not persisted.
SessionRecvUnpersisted ==
    /\ sessPc = "receiving"
    /\ chan # <<>>
    /\ chan' = Tail(chan)
    /\ IF Head(chan).kind = "msg"
       THEN history' = Append(history, Head(chan).msg)
       ELSE UNCHANGED history
    /\ UNCHANGED <<unitVars, agent, sessPc, journal, sending, pc, messages, turnVars, yielded,
                   turns>>

\* rx.recv() returns an item: a message is pushed and persisted, an error
\* is only printed.
SessionRecv ==
    /\ sessPc = "receiving"
    /\ chan # <<>>
    /\ chan' = Tail(chan)
    /\ IF Head(chan).kind = "msg"
       THEN /\ history' = Append(history, Head(chan).msg)
            /\ journal' = persist_messages(history')
       ELSE UNCHANGED <<history, journal>>
    /\ UNCHANGED <<unitVars, agent, sessPc, sending, pc, messages, turnVars, yielded, turns>>

\* rx.recv() returns None: the channel is empty and tx is dropped.
SessionRecvNone ==
    /\ sessPc = "receiving"
    /\ chan = <<>>
    /\ pc = "Closed"
    /\ sessPc' = "idle"
    /\ UNCHANGED <<unitVars, agent, history, journal, chan, sending, pc, messages, turnVars,
                   yielded, turns>>

Next ==
    \/ SessionInput
    \/ ReplyStart
    \/ ReplyStartFails
    \/ CompleteOk
    \/ CompleteErr
    \/ CollectToolRequests
    \/ DispatchCompletes
    \/ JoinAll
    \/ StripPanic
    \/ NextInference
    \/ NextInferenceErr
    \/ ReferencePush
    \/ StreamEnds
    \/ TaskSend
    \/ SessionRecv
    \/ SessionRecvNone

Spec == Init /\ [][Next]_vars

\* ------------------------------------------------------ properties: helpers

IsAssistantItem(it) == it.kind = "msg" /\ it.msg.role = "assistant"
IsUserItem(it) == it.kind = "msg" /\ it.msg.role = "user"

\* ids of a sequence of blocks, in order
IdsOf(blocks) == [i \in 1..Len(blocks) |-> blocks[i].id]

\* the yielded tool-response messages: positions in the stream
UserPositions == {k \in 1..Len(yielded) : IsUserItem(yielded[k])}

\* the tool requests of the assistant message yielded just before position k
RequestsBefore(k) ==
    IF k > 1 /\ IsAssistantItem(yielded[k - 1])
    THEN tool_requests_of(yielded[k - 1].msg)
    ELSE <<>>

\* --------------------------------------------------------------------- claims

\* C1: every ToolResponse block of a yielded user message carries the id of
\* a ToolRequest block of the assistant message yielded immediately before
\* it, in DefaultAgent::reply and in ReferenceAgent::reply.
C1_ResponseIdsAreRequestIds ==
    \A k \in UserPositions :
        /\ k > 1
        /\ IsAssistantItem(yielded[k - 1])
        /\ \A i \in 1..Len(yielded[k].msg.content) :
              /\ yielded[k].msg.content[i].type = "tool_response"
              /\ \E j \in 1..Len(RequestsBefore(k)) :
                    RequestsBefore(k)[j].id = yielded[k].msg.content[i].id

\* C1 witness: a tool-response message with two ToolResponse blocks has
\* been yielded.
C1_Witness ==
    \E k \in UserPositions : Len(yielded[k].msg.content) = 2

\* C2 (as claimed): the user message yielded after an assistant message
\* with n ToolRequest blocks holds exactly n ToolResponse blocks, one per
\* request and in the requests' order, also when some request carries an
\* invalid call.
C2_OneResponsePerRequest ==
    \A k \in UserPositions :
        IdsOf(yielded[k].msg.content) = IdsOf(RequestsBefore(k))

\* C3 (as claimed): each ToolResponse carries the result of dispatching the
\* ToolCall of the ToolRequest with the same id, for every mix of valid and
\* invalid requests.
C3_OutputMatchesRequest ==
    \A k \in UserPositions :
        \A i \in 1..Len(yielded[k].msg.content) :
            \A j \in 1..Len(RequestsBefore(k)) :
                RequestsBefore(k)[j].id = yielded[k].msg.content[i].id
                    => /\ RequestsBefore(k)[j].call.ok
                       /\ yielded[k].msg.content[i].result =
                              dispatch_tool_call(RequestsBefore(k)[j].call)

\* the outputs of the turn's dispatches that are errors
FailedOutputs == {i \in 1..Len(outputs) : outputs[i] # PendingOutput /\ ~outputs[i].ok}

\* number of assistant messages the stream has yielded
RECURSIVE CountAssistant(_)
CountAssistant(items) ==
    IF items = <<>> THEN 0
    ELSE (IF IsAssistantItem(Head(items)) THEN 1 ELSE 0) + CountAssistant(Tail(items))

C5_AssistantYieldedFirst ==
    /\ pc \in {"YieldedAssistant", "Dispatching"} =>
          /\ yielded # <<>>
          /\ Last(yielded) = MsgItem(response)
          /\ pc = "YieldedAssistant" => (outputs = <<>> /\ doneOrder = <<>>)
    /\ \A k \in UserPositions :
          /\ k > 1
          /\ IsAssistantItem(yielded[k - 1])
          /\ tool_requests_of(yielded[k - 1].msg) # <<>>

\* C5 witness: a dispatch of the turn has completed while the assistant
\* message is the last item yielded.
C5_Witness ==
    /\ pc = "Dispatching"
    /\ doneOrder # <<>>
    /\ Last(yielded) = MsgItem(response)

\* C6: the tool responses of a turn are yielded as one message, after every
\* dispatch of the turn has completed, and before the provider call and
\* every message of the next turn.
C6_SingleResponseMessage ==
    /\ \A k \in UserPositions : k > 1 /\ IsAssistantItem(yielded[k - 1])
    /\ \A k \in 2..Len(yielded) :
          IsAssistantItem(yielded[k]) => IsUserItem(yielded[k - 1])
    /\ pc = "YieldedResponse" =>
          /\ Len(doneOrder) = Len(futures_of(tool_requests_of(response)))
          /\ Len(outputs) = Len(doneOrder)
          /\ \A i \in 1..Len(outputs) : outputs[i] # PendingOutput
          /\ Len(message_tool_response.content) = Len(outputs)
          /\ \A i \in 1..Len(outputs) :
                message_tool_response.content[i].result = outputs[i]
          /\ Last(yielded) = MsgItem(message_tool_response)
    /\ (pc = "Completing" /\ turns > 0) => Last(yielded) = MsgItem(message_tool_response)

\* C6 witness: two dispatches completed, the second future first, and the
\* single tool-response message has been yielded.
C6_Witness ==
    /\ pc = "YieldedResponse"
    /\ doneOrder = <<2, 1>>

\* C7: when the provider returns an assistant message with no ToolRequest
\* block, the stream ends right after yielding it: nothing is dispatched, no
\* further provider call is made, and it is the last item of the stream.
C7_NoRequestsEndsStream ==
    \A k \in 1..Len(yielded) :
        (IsAssistantItem(yielded[k]) /\ tool_requests_of(yielded[k].msg) = <<>>)
            => /\ k = Len(yielded)
               /\ pc \in {"YieldedAssistant", "Ended", "Closed"}
               /\ turns = CountAssistant(yielded)
               /\ outputs = <<>>
               /\ doneOrder = <<>>

\* C7 witness: history [User text], the provider answered with text only,
\* the stream has ended and exactly one message was yielded.
C7_Witness ==
    /\ pc = "Closed"
    /\ sessPc = "idle"
    /\ yielded = <<MsgItem(Msg("assistant", <<TextBlock>>))>>
    /\ history = <<UserText, Msg("assistant", <<TextBlock>>)>>

\* C8: an error of provider.complete or of get_resources inside the loop
\* ends the reply: the error is the last item of the stream and nothing is
\* dispatched after it.
C8_ErrorEndsStream ==
    \A k \in 1..Len(yielded) :
        yielded[k].kind = "err"
            => /\ k = Len(yielded)
               /\ pc \in {"Ended", "Closed"}

\* C8 witness: the second provider call failed after a tool round, and the
\* stream is closed with the error as its last item.
C8_Witness ==
    /\ pc = "Closed"
    /\ Len(yielded) = 3
    /\ Last(yielded).kind = "err"
    /\ Last(yielded).err \in ProviderErrors

IsStatusMessage(m) ==
    \/ m = StatusRequest
    \/ /\ m.role = "user"
       /\ m.content # <<>>
       /\ m.content[1].type = "tool_response"
       /\ m.content[1].result.of = "status"

\* C10: the status pair synthesized by prepare_inference is never yielded
\* by the reply stream, so it is in neither the session's history nor the
\* journal.
C10_StatusPairNeverYielded ==
    /\ \A k \in 1..Len(yielded) : ~IsStatusMessage(yielded[k].msg)
    /\ \A k \in 1..Len(chan) : ~IsStatusMessage(chan[k].msg)
    /\ \A k \in 1..Len(history) : ~IsStatusMessage(history[k])
    /\ \A k \in 1..Len(journal) : ~IsStatusMessage(journal[k])

\* C10 witness: two turns ran with a status pair at the end of the working
\* history, and the session has received and persisted every message.
C10_Witness ==
    /\ turns = 2
    /\ sessPc = "idle"
    /\ Len(messages) >= 2
    /\ Last(messages) = StatusResponse(<<"a", "c">>)
    /\ messages[Len(messages) - 1] = StatusRequest
    /\ Len(journal) >= 4

\* ================================================ prepare_inference on its own

\* messages in the history a call of prepare_inference is given
MaxHistory == 5
\* resources the systems report to one call
MaxResources == 3

ResD == Res("d", 1002, 1, 2)
ResE == Res("e", 1003, 0, 2)

\* The resources the systems may report: priorities 0.9, 0.5, 0.5005,
\* 0.501, 0.5015, the older ones among the last three the higher.
ResourcePool == {ResA, ResB, ResC, ResD, ResE}

AssistantCall == Msg("assistant", <<TextBlock, ToolRequestBlock("a1", OkCall("math__add"))>>)
ToolAnswer == Msg("user", <<ToolResponseBlock("a1", dispatch_tool_call(OkCall("math__add")))>>)

\* the sequences of at most n elements of S
SeqsUpTo(S, n) == UNION {[1..k -> S] : k \in 0..n}

\* The caller's history: user text messages (one token) and assistant
\* messages of two blocks (two tokens).
CallHistories == SeqsUpTo({UserText, AssistantCall}, MaxHistory)

\* pending: nothing on the first call of a reply, the turn's response and
\* tool response afterwards.
CallPendings == { <<>>, <<AssistantCall, ToolAnswer>> }

\* resource_content: each resource once, in any order (the order of the
\* hash maps' iteration).
CallResources ==
    {r \in SeqsUpTo(ResourcePool, MaxResources) :
        \A i, j \in 1..Len(r) : i # j => r[i] # r[j]}

InitBudget ==
    /\ ReplyIdle
    /\ StdioIdle
    /\ RewindIdle
    /\ MoreUnitsIdle
    /\ callMessages \in CallHistories
    /\ callPending \in CallPendings
    /\ callResources \in CallResources
    /\ prepared = <<>>
    /\ budgetPc = "called"

\* DefaultAgent::prepare_inference runs to its return.
PrepareInference ==
    /\ budgetPc = "called"
    /\ prepared' = prepare_inference(callMessages, callPending, callResources)
    /\ budgetPc' = "returned"
    /\ UNCHANGED <<replyVars, stdioVars, rewindVars, moreUnitVars, callMessages, callPending,
                   callResources>>

NextBudget == PrepareInference

SpecBudget == InitBudget /\ [][NextBudget]_vars

\* -------------------------------------------- properties of prepare_inference

\* the returned history ends with a status pair
HasStatusPair(out) ==
    /\ Len(out) >= 2
    /\ out[Len(out) - 1] = StatusRequest
    /\ IsStatusMessage(out[Len(out)])
    /\ out[Len(out)].role = "user"

\* the uris whose content the status pair of the returned history carries
StatusDump(out) ==
    IF HasStatusPair(out) THEN out[Len(out)].content[1].result.dump ELSE <<>>

\* the returned history without its status pair
WithoutStatusPair(out) ==
    IF HasStatusPair(out) THEN SubSeq(out, 1, Len(out) - 2) ELSE out

SeqRange(s) == {s[i] : i \in 1..Len(s)}

\* the resources of the call that the returned status pair carries, and
\* those it does not
KeptResources == {r \in SeqRange(callResources) : r.uri \in SeqRange(StatusDump(prepared))}
DroppedResources == SeqRange(callResources) \ KeptResources

RECURSIVE SumOver(_, _)
\* the sum of f[x] over the finite set S
SumOver(S, f) ==
    IF S = {} THEN 0
    ELSE LET x == CHOOSE y \in S : TRUE IN f[x] + SumOver(S \ {x}, f)

KeptTokens == SumOver(KeptResources, [r \in KeptResources |-> r.tokens])

\* the estimate prepare_inference starts from: the caller's history and
\* every resource
InitialEstimate == count_everything(callMessages, callResources)

\* the estimate of the history and the kept resources
FinalEstimate == count_everything(callMessages, <<>>) + KeptTokens

\* C11: the returned history fits the budget: system prompt, every returned
\* message (caller history and pending), tool definitions and surviving
\* resources are estimated at no more than target_limit tokens.
C11_ResultFitsBudget ==
    budgetPc = "returned" =>
        count_everything(WithoutStatusPair(prepared), <<>>) + KeptTokens <= target_limit

\* C12: a resource is dropped only while the running estimate is strictly
\* greater than target_limit: an initial estimate of at most target_limit
\* (equal included) drops nothing, the last resource dropped was dropped at
\* an estimate above the limit, and the loop ends only at an estimate of at
\* most target_limit or with no resource left.
C12_DropsOnlyWhileOverBudget ==
    budgetPc = "returned" =>
        /\ InitialEstimate <= target_limit => DroppedResources = {}
        /\ DroppedResources # {} =>
              \E d \in DroppedResources : FinalEstimate + d.tokens > target_limit
        /\ FinalEstimate <= target_limit \/ KeptResources = {}

\* a call that dropped a resource and stopped with resources left, at an
\* estimate equal to the limit
C12_Witness ==
    /\ budgetPc = "returned"
    /\ DroppedResources # {}
    /\ KeptResources # {}
    /\ FinalEstimate = target_limit

\* C13: the dropped resources are a tail of the order (priority descending,
\* newer first among priorities within PRIORITY_EPSILON): no kept resource
\* has a priority lower than a dropped one by PRIORITY_EPSILON or more, and
\* of two resources within PRIORITY_EPSILON the older is dropped first, so
\* a kept one is never older than a dropped one.
C13_DroppedAreTailOfOrder ==
    budgetPc = "returned" =>
        \A k \in KeptResources, d \in DroppedResources :
            IF Abs(k.priority - d.priority) < PRIORITY_EPSILON
            THEN k.timestamp >= d.timestamp
            ELSE k.priority > d.priority

\* the resources the status pair has to carry: every resource when the
\* initial estimate is within the limit, the survivors of the trim otherwise
ExpectedResources ==
    IF InitialEstimate <= target_limit
    THEN callResources
    ELSE SurvivingResources(callMessages, callResources)

ExpectedDump == [i \in 1..Len(ExpectedResources) |-> ExpectedResources[i].uri]

\* C14 as stated: the returned history always ends with exactly one status
\* pair, which carries every resource when the estimate is within the limit
\* and exactly the survivors when resources were trimmed.
C14_StatusPairAlways ==
    budgetPc = "returned" =>
        /\ HasStatusPair(prepared)
        /\ ~HasStatusPair(WithoutStatusPair(prepared))
        /\ StatusDump(prepared) = ExpectedDump

\* C14 (amended): when at least one resource is left to carry, the returned
\* history is the caller's messages, the pending messages and exactly one
\* status pair (assistant ToolRequest "status" with id "000", user
\* ToolResponse with id "000") carrying every resource (estimate within the
\* limit) or exactly the survivors (after a trim); when there is no
\* resource or none survives, no status pair is appended.
C14_StatusPairIffResourcesLeft ==
    budgetPc = "returned" =>
        IF ExpectedResources # <<>>
        THEN /\ prepared = callMessages \o callPending
                             \o <<StatusRequest, StatusResponse(ExpectedDump)>>
             /\ prepared[Len(prepared) - 1].content[1].id = "000"
             /\ prepared[Len(prepared) - 1].content[1].call = OkCall("status")
             /\ prepared[Len(prepared)].content[1].id = "000"
             /\ DroppedResources = SeqRange(callResources) \ SeqRange(ExpectedResources)
        ELSE prepared = callMessages \o callPending

\* a call that trimmed and returned a status pair for the survivors
C14_Witness ==
    /\ budgetPc = "returned"
    /\ InitialEstimate > target_limit
    /\ HasStatusPair(prepared)
    /\ DroppedResources # {}
    /\ Len(StatusDump(prepared)) >= 1

\* ===================================================== the stdio transport actor

\* callers of StdioTransportHandle::send, one request each
MaxRequests == 2
\* lines the child writes to its stdout
MaxLines == 3

\* mpsc::channel(32)
StdioChannelCapacity == 32

Callers == 1..MaxRequests

\* no request, no response
NoId == 0

\* The id of the request of caller c: the client allocates a fresh id for
\* every request.
RequestId(c) == c

\* An id the child may answer with although no request carries it.
StrayId == MaxRequests + 1

\* What the child may write to its stdout: a Response with an id, a line
\* that is no Response (invalid JSON, a notification, a Response without
\* id), or bytes that are not UTF-8, on which read_line fails.
ResponseLine(id) == [kind |-> "response", id |-> id]
OtherLine == [kind |-> "other", id |-> NoId]
BadLine == [kind |-> "bad", id |-> NoId]

\* the map with no entry
EmptyMap == <<>>

\* PendingRequests::insert(id, sender)
insert(map, id, tx) ==
    IF id \in DOMAIN map THEN map
    ELSE [x \in DOMAIN map \cup {id} |-> IF x = id THEN tx ELSE map[x]]

\* The entries PendingRequests::respond(id, _) leaves: the entry of id is
\* removed, nothing changes when there is none.
respond(map, id) == [x \in DOMAIN map \ {id} |-> map[x]]

\* the callers whose one-shot senders the map holds
SendersIn(map) == {map[x] : x \in DOMAIN map}

\* The caller's receiver resolves with outcome, unless the caller dropped
\* it already.
Resolve(states, cs, outcome) ==
    [c \in DOMAIN states |->
        IF c \in cs /\ states[c] = "waiting" THEN outcome ELSE states[c]]

\* the counter cnt with the entries of S raised by one
Bump(cnt, S) == [x \in DOMAIN cnt |-> IF x \in S THEN cnt[x] + 1 ELSE cnt[x]]

InitStdio ==
    /\ ReplyIdle
    /\ BudgetIdle
    /\ RewindIdle
    /\ MoreUnitsIdle
    /\ actorPc = "running"
    /\ handleAlive = TRUE
    /\ callerState = [c \in Callers |-> "idle"]
    /\ callerGot = [c \in Callers |-> NoId]
    /\ sendQueue = <<>>
    /\ pending_requests = EmptyMap
    /\ writerPc = "recv"
    /\ writerMsg = NoId
    /\ readerPc = "reading"
    /\ childState = "running"
    /\ childIn = {}
    /\ childOut = <<>>
    /\ emitted = 0
    /\ removed = [c \in Callers |-> 0]
    /\ answered = [c \in Callers |-> 0]

otherUnits == <<replyVars, budgetVars, rewindVars, moreUnitVars>>

\* StdioTransportHandle::send of a request: send_message puts the request
\* and a one-shot sender on the channel and awaits the receiver; the send
\* fails once the actor has dropped the channel's receiver.
CallerSend(c) ==
    /\ actorPc # "unspawned"
    /\ handleAlive
    /\ callerState[c] = "idle"
    /\ IF writerPc = "done"
       THEN /\ callerState' = [callerState EXCEPT ![c] = "closed"]
            /\ UNCHANGED sendQueue
       ELSE /\ Len(sendQueue) < StdioChannelCapacity
            /\ sendQueue' = Append(sendQueue, c)
            /\ callerState' = [callerState EXCEPT ![c] = "waiting"]
    /\ UNCHANGED <<otherUnits, actorPc, handleAlive, callerGot, pending_requests, writerPc,
                   writerMsg, readerPc, childState, childIn, childOut, emitted, removed,
                   answered>>

\* The caller stops waiting (its send future is dropped, as a timeout or a
\* cancellation does).  The handle holds only the channel's sender, so the
\* slot of the request stays where it is.
CallerGivesUp(c) ==
    /\ callerState[c] = "waiting"
    /\ callerState' = [callerState EXCEPT ![c] = "gone"]
    /\ UNCHANGED <<otherUnits, actorPc, handleAlive, callerGot, sendQueue, pending_requests,
                   writerPc, writerMsg, readerPc, childState, childIn, childOut, emitted,
                   removed, answered>>

\* The last StdioTransportHandle is dropped; a caller that waits in send
\* still borrows one.
HandleDrop ==
    /\ handleAlive
    /\ \A c \in Callers : callerState[c] # "waiting"
    /\ handleAlive' = FALSE
    /\ UNCHANGED <<otherUnits, actorPc, callerState, callerGot, sendQueue, pending_requests,
                   writerPc, writerMsg, readerPc, childState, childIn, childOut, emitted,
                   removed, answered>>

\* Variant of WriterRecv: the sender is not registered before the bytes
\* are written.
WriterRecvUnregistered ==
    /\ actorPc = "running"
    /\ writerPc = "recv"
    /\ sendQueue # <<>>
    /\ sendQueue' = Tail(sendQueue)
    /\ writerMsg' = Head(sendQueue)
    /\ writerPc' = "write"
    /\ UNCHANGED <<otherUnits, actorPc, handleAlive, callerState, callerGot, pending_requests,
                   readerPc, childState, childIn, childOut, emitted, removed, answered>>

\* writer: receiver.recv() returns a request, it is serialized and its
\* sender is inserted into the pending map.
WriterRecv ==
    /\ actorPc = "running"
    /\ writerPc = "recv"
    /\ sendQueue # <<>>
    /\ sendQueue' = Tail(sendQueue)
    /\ pending_requests' = insert(pending_requests, RequestId(Head(sendQueue)), Head(sendQueue))
    /\ writerMsg' = Head(sendQueue)
    /\ writerPc' = "write"
    /\ UNCHANGED <<otherUnits, actorPc, handleAlive, callerState, callerGot, readerPc,
                   childState, childIn, childOut, emitted, removed, answered>>

\* writer: serde_json::to_string fails, the error goes to the caller and
\* the loop continues.
WriterSerializeFails ==
    /\ actorPc = "running"
    /\ writerPc = "recv"
    /\ sendQueue # <<>>
    /\ sendQueue' = Tail(sendQueue)
    /\ callerState' = Resolve(callerState, {Head(sendQueue)}, "failed")
    /\ answered' = Bump(answered, {Head(sendQueue)})
    /\ UNCHANGED <<otherUnits, actorPc, handleAlive, callerGot, pending_requests, writerPc,
                   writerMsg, readerPc, childState, childIn, childOut, emitted, removed>>

\* writer: write_all and flush succeed, the child has the request.
WriterWriteOk ==
    /\ actorPc = "running"
    /\ writerPc = "write"
    /\ childState = "running"
    /\ childIn' = childIn \cup {writerMsg}
    /\ writerMsg' = NoId
    /\ writerPc' = "recv"
    /\ UNCHANGED <<otherUnits, actorPc, handleAlive, callerState, callerGot, sendQueue,
                   pending_requests, readerPc, childState, childOut, emitted, removed,
                   answered>>

\* Variant of WriterWriteFails: the loop ends on the failure without
\* clearing the pending map.
WriterWriteFailsKeepsPending ==
    /\ actorPc = "running"
    /\ writerPc = "write"
    /\ childState # "running"
    /\ callerState' = Resolve(callerState, {sendQueue[i] : i \in 1..Len(sendQueue)}, "closed")
    /\ sendQueue' = <<>>
    /\ writerMsg' = NoId
    /\ writerPc' = "done"
    /\ UNCHANGED <<otherUnits, actorPc, handleAlive, callerGot, pending_requests, readerPc,
                   childState, childIn, childOut, emitted, removed, answered>>

\* writer: write_all or flush fails (the child's stdin is closed): the
\* pending map is cleared and the loop ends, which drops the receiver and
\* the requests still queued in it.
WriterWriteFails ==
    /\ actorPc = "running"
    /\ writerPc = "write"
    /\ childState # "running"
    /\ pending_requests' = EmptyMap
    /\ removed' = Bump(removed, DOMAIN pending_requests)
    /\ callerState' = Resolve(callerState,
                              SendersIn(pending_requests) \cup {sendQueue[i] : i \in 1..Len(sendQueue)},
                              "closed")
    /\ sendQueue' = <<>>
    /\ writerMsg' = NoId
    /\ writerPc' = "done"
    /\ UNCHANGED <<otherUnits, actorPc, handleAlive, callerGot, readerPc, childState,
                   childIn, childOut, emitted, answered>>

\* writer: receiver.recv() returns None, every sender is dropped and the
\* channel is empty; the loop ends and the child's stdin is closed.
WriterEnds ==
    /\ actorPc = "running"
    /\ writerPc = "recv"
    /\ sendQueue = <<>>
    /\ ~handleAlive
    /\ writerPc' = "done"
    /\ UNCHANGED <<otherUnits, actorPc, handleAlive, callerState, callerGot, sendQueue,
                   pending_requests, writerMsg, readerPc, childState, childIn, childOut,
                   emitted, removed, answered>>

\* Variant of ReaderLine: a line that is no Response ends the reader's loop.
ReaderLineStopsOnOther ==
    /\ actorPc = "running"
    /\ readerPc = "reading"
    /\ childOut # <<>>
    /\ Head(childOut).kind # "bad"
    /\ childOut' = Tail(childOut)
    /\ readerPc' = IF Head(childOut).kind = "other" THEN "done" ELSE readerPc
    /\ IF Head(childOut).kind = "response" /\ Head(childOut).id \in DOMAIN pending_requests
       THEN LET id == Head(childOut).id
            IN /\ pending_requests' = respond(pending_requests, id)
               /\ removed' = Bump(removed, {id})
               /\ answered' = Bump(answered, {pending_requests[id]})
               /\ callerState' = Resolve(callerState, {pending_requests[id]}, "answered")
               /\ callerGot' = [c \in Callers |->
                                  IF c = pending_requests[id] /\ callerState[c] = "waiting"
                                  THEN id ELSE callerGot[c]]
       ELSE UNCHANGED <<pending_requests, removed, answered, callerState, callerGot>>
    /\ UNCHANGED <<otherUnits, actorPc, handleAlive, sendQueue, writerPc, writerMsg,
                   childState, childIn, emitted>>

\* Variant of ReaderLine: a Response is handed to the oldest pending
\* request, whatever id it carries.
ReaderLineInOrder ==
    /\ actorPc = "running"
    /\ readerPc = "reading"
    /\ childOut # <<>>
    /\ Head(childOut).kind # "bad"
    /\ childOut' = Tail(childOut)
    /\ IF Head(childOut).kind = "response" /\ DOMAIN pending_requests # {}
       THEN LET id == CHOOSE x \in DOMAIN pending_requests :
                         \A y \in DOMAIN pending_requests : x <= y
            IN /\ pending_requests' = respond(pending_requests, id)
               /\ removed' = Bump(removed, {id})
               /\ answered' = Bump(answered, {pending_requests[id]})
               /\ callerState' = Resolve(callerState, {pending_requests[id]}, "answered")
               /\ callerGot' = [c \in Callers |->
                                  IF c = pending_requests[id] /\ callerState[c] = "waiting"
                                  THEN Head(childOut).id ELSE callerGot[c]]
       ELSE UNCHANGED <<pending_requests, removed, answered, callerState, callerGot>>
    /\ UNCHANGED <<otherUnits, actorPc, handleAlive, sendQueue, writerPc, writerMsg, readerPc,
                   childState, childIn, emitted>>

\* reader: read_line returns a line; a Response with an id is delivered
\* through pending_requests.respond, any other line is dropped.
ReaderLine ==
    /\ actorPc = "running"
    /\ readerPc = "reading"
    /\ childOut # <<>>
    /\ Head(childOut).kind # "bad"
    /\ childOut' = Tail(childOut)
    /\ IF Head(childOut).kind = "response" /\ Head(childOut).id \in DOMAIN pending_requests
       THEN LET id == Head(childOut).id
            IN /\ pending_requests' = respond(pending_requests, id)
               /\ removed' = Bump(removed, {id})
               /\ answered' = Bump(answered, {pending_requests[id]})
               /\ callerState' = Resolve(callerState, {pending_requests[id]}, "answered")
               /\ callerGot' = [c \in Callers |->
                                  IF c = pending_requests[id] /\ callerState[c] = "waiting"
                                  THEN id ELSE callerGot[c]]
       ELSE UNCHANGED <<pending_requests, removed, answered, callerState, callerGot>>
    /\ UNCHANGED <<otherUnits, actorPc, handleAlive, sendQueue, writerPc, writerMsg, readerPc,
                   childState, childIn, emitted>>

\* reader: read_line returns Err (the line is not UTF-8): the loop ends.
ReaderFails ==
    /\ actorPc = "running"
    /\ readerPc = "reading"
    /\ childOut # <<>>
    /\ Head(childOut).kind = "bad"
    /\ childOut' = Tail(childOut)
    /\ readerPc' = "done"
    /\ UNCHANGED <<otherUnits, actorPc, handleAlive, callerState, callerGot, sendQueue,
                   pending_requests, writerPc, writerMsg, childState, childIn, emitted,
                   removed, answered>>

\* reader: read_line returns Ok(0), the child has closed its stdout: the
\* loop ends.
ReaderEof ==
    /\ actorPc = "running"
    /\ readerPc = "reading"
    /\ childOut = <<>>
    /\ childState # "running"
    /\ readerPc' = "done"
    /\ UNCHANGED <<otherUnits, actorPc, handleAlive, callerState, callerGot, sendQueue,
                   pending_requests, writerPc, writerMsg, childState, childIn, childOut,
                   emitted, removed, answered>>

\* tokio::join! completes when both loops have ended: run returns, the
\* actor is dropped, and with it the pending map and the Child, which is
\* killed on drop.
ActorReturns ==
    /\ actorPc = "running"
    /\ readerPc = "done"
    /\ writerPc = "done"
    /\ actorPc' = "returned"
    /\ childState' = IF childState = "running" THEN "killed" ELSE childState
    /\ pending_requests' = EmptyMap
    /\ removed' = Bump(removed, DOMAIN pending_requests)
    /\ callerState' = Resolve(callerState, SendersIn(pending_requests), "closed")
    /\ UNCHANGED <<otherUnits, handleAlive, callerGot, sendQueue, writerPc, writerMsg,
                   readerPc, childIn, childOut, emitted, answered>>

\* The child answers a request it has read, in any order, possibly again.
ChildResponds(i) ==
    /\ childState = "running"
    /\ emitted < MaxLines
    /\ i \in childIn
    /\ childOut' = Append(childOut, ResponseLine(RequestId(i)))
    /\ emitted' = emitted + 1
    /\ UNCHANGED <<otherUnits, actorPc, handleAlive, callerState, callerGot, sendQueue,
                   pending_requests, writerPc, writerMsg, readerPc, childState, childIn,
                   removed, answered>>

\* The child writes something else: a Response with an id nobody waits
\* for, a line that is no Response, or bytes that are no UTF-8.
ChildWritesOther ==
    /\ childState = "running"
    /\ emitted < MaxLines
    /\ \E l \in {ResponseLine(StrayId), OtherLine, BadLine} : childOut' = Append(childOut, l)
    /\ emitted' = emitted + 1
    /\ UNCHANGED <<otherUnits, actorPc, handleAlive, callerState, callerGot, sendQueue,
                   pending_requests, writerPc, writerMsg, readerPc, childState, childIn,
                   removed, answered>>

\* The child process exits; its ends of the pipes are closed.
ChildExits ==
    /\ actorPc = "running"
    /\ childState = "running"
    /\ childState' = "exited"
    /\ UNCHANGED <<otherUnits, actorPc, handleAlive, callerState, callerGot, sendQueue,
                   pending_requests, writerPc, writerMsg, readerPc, childIn, childOut,
                   emitted, removed, answered>>

\* the steps of the actor task
ActorNext ==
    \/ WriterRecv
    \/ WriterSerializeFails
    \/ WriterWriteOk
    \/ WriterWriteFails
    \/ WriterEnds
    \/ ReaderLine
    \/ ReaderFails
    \/ ReaderEof
    \/ ActorReturns

NextStdio ==
    \/ \E c \in Callers : CallerSend(c)
    \/ \E c \in Callers : CallerGivesUp(c)
    \/ HandleDrop
    \/ WriterRecv
    \/ WriterSerializeFails
    \/ WriterWriteOk
    \/ WriterWriteFails
    \/ WriterEnds
    \/ ReaderLine
    \/ ReaderFails
    \/ ReaderEof
    \/ ActorReturns
    \/ \E i \in Callers : ChildResponds(i)
    \/ ChildWritesOther
    \/ ChildExits

SpecStdio == InitStdio /\ [][NextStdio]_vars

\* ------------------------------------------------ properties of the stdio actor

\* The actor task cannot take a step: each loop that has not ended waits
\* for its channel or its pipe.
ActorBlocked == ~ENABLED ActorNext

\* C15: every id inserted into the pending map is removed exactly once, by
\* the delivery of its response or by a clear sweep; none is answered
\* twice, and none stays in the map forever: once the child is gone and
\* the actor can take no further step, the map is empty.
C15_EveryIdRemovedOnce ==
    /\ \A c \in DOMAIN removed : removed[c] <= 1
    /\ \A c \in DOMAIN answered : answered[c] <= 1
    /\ (actorPc # "unspawned" /\ childState # "running" /\ ActorBlocked)
          => pending_requests = EmptyMap

\* C16: when the child has exited, the actor terminates and clears the
\* pending map, so no caller is left waiting: once the actor can take no
\* further step after the exit, no caller waits for a response any more.
C16_ChildExitClosesWaiters ==
    (actorPc # "unspawned" /\ childState = "exited" /\ ActorBlocked) =>
        \A c \in DOMAIN callerState : callerState[c] # "waiting"

\* C17: when the last handle is dropped the child is killed, also when it
\* keeps running with its stdout open: once the actor can take no further
\* step after the drop, the child does not run any more.
C17_HandleDropKillsChild ==
    (actorPc # "unspawned" /\ ~handleAlive /\ ActorBlocked) => childState # "running"

\* C18: with several requests outstanding each caller receives exactly the
\* response whose id is its request's id, in whatever order the responses
\* arrive, at most once; a response whose id matches no pending request
\* leaves the pending map and every caller as they are, and the reader
\* goes on.
C18_ResponsesMatchedById ==
    /\ [](\A c \in DOMAIN callerState :
            /\ callerState[c] = "answered" => callerGot[c] = RequestId(c)
            /\ callerGot[c] # NoId => callerGot[c] = RequestId(c)
            /\ answered[c] <= 1)
    /\ [][(/\ actorPc = "running"
           /\ readerPc = "reading"
           /\ childOut # <<>>
           /\ Head(childOut).kind = "response"
           /\ Head(childOut).id \notin DOMAIN pending_requests
           /\ childOut' = Tail(childOut))
          => UNCHANGED <<pending_requests, callerState, callerGot, readerPc>>]_vars

\* two requests are outstanding and the second is answered first while the
\* first is still pending
C18_Witness ==
    /\ actorPc = "running"
    /\ childIn = {1, 2}
    /\ callerState[2] = "answered"
    /\ callerGot[2] = RequestId(2)
    /\ callerState[1] = "waiting"
    /\ RequestId(1) \in DOMAIN pending_requests

\* ================================================= Session::rewind_messages

\* messages in the history rewind_messages is called on
MaxRewindHistory == 4

\* A user message that answers a tool request and adds a text.
ToolAnswerWithText ==
    Msg("user", <<ToolResponseBlock("a1", dispatch_tool_call(OkCall("math__add"))), TextBlock>>)

\* The messages a session history is made of: user texts, assistant texts,
\* assistant messages with a tool request, user tool responses.
HistoryMessages ==
    {UserText, Msg("assistant", <<TextBlock>>), AssistantCall, ToolAnswer, ToolAnswerWithText}

RewindHistories == SeqsUpTo(HistoryMessages, MaxRewindHistory)

\* Variant of IsUserTextMessage: every user message counts, tool responses
\* included.
IsUserMessage(m) == m.role = "user"

\* message.role == Role::User
\*     && message.content.iter().any(|c| matches!(c, MessageContent::Text(_)))
IsUserTextMessage(m) ==
    /\ m.role = "user"
    /\ \E i \in 1..Len(m.content) : m.content[i].type = "text"

RECURSIVE PopToUserText(_)
\* while let Some(message) = self.messages.last() { if ... { break; } pop }
PopToUserText(msgs) ==
    IF msgs = <<>> \/ IsUserTextMessage(Last(msgs))
    THEN msgs
    ELSE PopToUserText(Front(msgs))

\* Variant of rewind_messages: the user text message that was found stays.
rewind_messages_to_user(msgs) ==
    IF msgs = <<>> THEN msgs ELSE PopToUserText(msgs)

\* Session::rewind_messages
rewind_messages(msgs) ==
    IF msgs = <<>> THEN msgs
    ELSE LET found == PopToUserText(msgs)
         IN IF found # <<>> THEN Front(found) ELSE found

InitRewind ==
    /\ BudgetIdle
    /\ StdioIdle
    /\ MoreUnitsIdle
    /\ agent = "default"
    /\ sessPc = "idle"
    /\ history \in RewindHistories
    /\ journal = persist_messages(history)
    /\ chan = <<>>
    /\ sending = NoItem
    /\ pc = "NotStarted"
    /\ messages = <<>>
    /\ response = NoMsg
    /\ outputs = <<>>
    /\ doneOrder = <<>>
    /\ message_tool_response = NoMsg
    /\ yielded = <<>>
    /\ turns = 0
    /\ rewindFrom = history
    /\ rewindPc = "called"

\* self.rewind_messages() runs to its return; it does not persist.
RewindMessages ==
    /\ rewindPc = "called"
    /\ history' = rewind_messages(history)
    /\ rewindPc' = "returned"
    /\ UNCHANGED <<budgetVars, stdioVars, moreUnitVars, rewindFrom, agent, sessPc, journal, chan, sending,
                   pc, messages, turnVars, yielded, turns>>

NextRewind == RewindMessages

SpecRewind == InitRewind /\ [][NextRewind]_vars

\* ------------------------------------------- properties of rewind_messages

\* the positions of the user messages of h that hold a Text block
UserTextPositions(h) ==
    {i \in 1..Len(h) :
        h[i].role = "user" /\ \E j \in 1..Len(h[i].content) : h[i].content[j].type = "text"}

\* the position of the most recent user Text message of h, 0 if none
LastUserText(h) ==
    IF UserTextPositions(h) = {} THEN 0
    ELSE CHOOSE i \in UserTextPositions(h) : \A j \in UserTextPositions(h) : j <= i

\* C19 as stated: after rewind_messages, whatever the prior history, the
\* history is empty or its last message has role Assistant.
C19_RewoundEndsWithAssistant ==
    rewindPc = "returned" => (history = <<>> \/ Last(history).role = "assistant")

\* C19 (amended): after rewind_messages the history is empty or its last
\* message has role Assistant, for every prior history whose most recent
\* user Text message is the first message or directly follows an assistant
\* message.
C19_RewoundEndsWithAssistantAfterTurn ==
    (/\ rewindPc = "returned"
     /\ LastUserText(rewindFrom) > 1 => rewindFrom[LastUserText(rewindFrom) - 1].role = "assistant")
    => (history = <<>> \/ Last(history).role = "assistant")

\* a rewind that removed a user text and the tool round after it and
\* stopped behind an assistant message
C19_Witness ==
    /\ rewindPc = "returned"
    /\ history # <<>>
    /\ Last(history).role = "assistant"
    /\ Len(rewindFrom) >= Len(history) + 3
    /\ LastUserText(rewindFrom) = Len(history) + 1

\* C20: rewind_messages removes the most recent user message that holds a
\* Text block and every message after it, and leaves the earlier messages
\* as they were, in order; without a user Text message the history becomes
\* empty.
C20_RewindRemovesLastUserTurn ==
    rewindPc = "returned" =>
        IF LastUserText(rewindFrom) = 0
        THEN history = <<>>
        ELSE history = SubSeq(rewindFrom, 1, LastUserText(rewindFrom) - 1)

\* the interrupted tool round of the code's test: the user text, the
\* assistant's tool request and the tool response are removed, the message
\* before them stays
C20_Witness ==
    /\ rewindPc = "returned"
    /\ Len(rewindFrom) = 4
    /\ rewindFrom[2] = UserText
    /\ rewindFrom[3] = AssistantCall
    /\ rewindFrom[4] = ToolAnswer
    /\ history = <<rewindFrom[1]>>

\* ================================================== the session under Ctrl-C

InitInterrupt ==
    /\ ReplyInit
    /\ IdleBesidesInterrupt
    /\ startHistory = history

\* Variant of CtrlC: the abort signal is sent but the history is left as
\* it is.
CtrlCWithoutRewind ==
    /\ sessPc = "receiving"
    /\ chan' = <<>>
    /\ sessPc' = "cancelled"
    /\ UNCHANGED <<unitVars, agent, history, journal, sending, pc, messages, turnVars,
                   yielded, turns>>

\* tokio::signal::ctrl_c() completes while the session waits in rx.recv():
\* the abort signal is sent, the history is rewound, and
\* agent_process_messages returns, which drops rx and what the channel
\* still holds.  Nothing is persisted.
CtrlC ==
    /\ sessPc = "receiving"
    /\ history' = rewind_messages(history)
    /\ chan' = <<>>
    /\ sessPc' = "cancelled"
    /\ UNCHANGED <<unitVars, agent, journal, sending, pc, messages, turnVars, yielded, turns>>

\* The agent task's select! takes the abort branch: the stream is dropped
\* and the task ends.
TaskAborts ==
    /\ sessPc = "cancelled"
    /\ Polled
    /\ pc \notin {"NotStarted", "Starting", "Closed", "Panicked"}
    /\ pc' = "Closed"
    /\ UNCHANGED <<unitVars, agent, sessionVars, sending, messages, turnVars, yielded, turns>>

\* tx.send(..).await.unwrap() after rx is gone: the send fails and the
\* agent task panics.
TaskSendPanics ==
    /\ sessPc = "cancelled"
    /\ sending # NoItem
    /\ sending' = NoItem
    /\ pc' = "Panicked"
    /\ UNCHANGED <<unitVars, agent, sessionVars, messages, turnVars, yielded, turns>>

NextInterrupt ==
    \/ Next
    \/ CtrlC
    \/ TaskAborts
    \/ TaskSendPanics

SpecInterrupt == InitInterrupt /\ [][NextInterrupt]_vars

\* --------------------------------------- properties of the session's history

RECURSIVE MessagesOf(_)
\* the messages among the items of a stream, in order
MessagesOf(items) ==
    IF items = <<>> THEN <<>>
    ELSE IF Head(items).kind = "msg"
         THEN <<Head(items).msg>> \o MessagesOf(Tail(items))
         ELSE MessagesOf(Tail(items))

\* C21: after a Ctrl-C at any point of a reply, whatever was yielded and
\* appended before, the history is what it was before the last user
\* message was sent, and it stays so: nothing of the cancelled reply is
\* appended afterwards.
C21_CancelRestoresHistory ==
    sessPc = "cancelled" => history = startHistory

\* a cancel after a tool round was appended to a resumed history
C21_Witness ==
    /\ sessPc = "cancelled"
    /\ startHistory # <<>>
    /\ Len(journal) >= Len(startHistory) + 3
    /\ history = startHistory
    /\ pc \in {"Closed", "Panicked"}

\* C22: once the cancel handling has finished, the journal holds exactly
\* the rewound in-memory history.
C22_JournalMatchesAfterCancel ==
    sessPc = "cancelled" => journal = persist_messages(history)

\* C23: during a reply the history only grows, by the yielded messages in
\* yield order; only the rewind of a cancel removes messages; after a reply
\* that completes, the history is the history before the reply, the user's
\* message and all yielded messages in yield order.
C23_HistoryAppendOnly ==
    /\ [](sessPc \in {"receiving", "idle"} =>
            /\ \E k \in 0..Len(MessagesOf(yielded)) :
                  history = startHistory \o <<UserText>> \o SubSeq(MessagesOf(yielded), 1, k)
            /\ sessPc = "idle" =>
                  history = startHistory \o <<UserText>> \o MessagesOf(yielded))
    /\ [][history' # history =>
            \/ sessPc' = "cancelled"
            \/ /\ Len(history') = Len(history) + 1
               /\ SubSeq(history', 1, Len(history)) = history]_vars

\* one tool round has completed: the user's message, the assistant's
\* request, the tool response and the final assistant message
C23_Witness ==
    /\ sessPc = "idle"
    /\ startHistory = <<>>
    /\ Len(history) = 4
    /\ history[1] = UserText
    /\ tool_requests_of(history[2]) # <<>>
    /\ history[3].role = "user"
    /\ history[4].role = "assistant"
    /\ tool_requests_of(history[4]) = <<>>

\* ======================================================================
\* The agent routes of the HTTP service
\* (crates/goose-server/src/routes/agent.rs).
\* ======================================================================

OK == 200
BAD_REQUEST == 400
UNAUTHORIZED == 401
UNSUPPORTED_MEDIA_TYPE == 415
UNPROCESSABLE_ENTITY == 422

\* The configured secret and the values a client may send as X-Secret-Key:
\* nothing, the secret, another text, bytes that are no visible ASCII.
secret_key == "test"
NotText == "\\xff"
Headers == {NoHeader, secret_key, "wrong", NotText}

\* headers.get("X-Secret-Key").and_then(|value| value.to_str().ok())
NoneStr == "None"
header_text(h) == IF h \in {NoHeader, NotText} THEN NoneStr ELSE h

\* Agent versions registered by register_agent!, and the factory's default.
available_versions == {"default", "reference"}
default_version == "default"
NoVersion == "null"
Versions == available_versions \cup {NoVersion, "v9"}

\* Providers the provider factory knows, and one it does not.
KnownProviders == {"openai", "databricks"}
Providers == KnownProviders \cup {"nope"}

\* Bodies of POST /agent: a CreateAgentRequest, or one the Json extractor
\* rejects (no JSON content type, no JSON, JSON without `provider`).
OkBody(p, v) == [kind |-> "ok", provider |-> p, version |-> v]
BadBody(k) == [kind |-> k, provider |-> "none", version |-> "none"]
Bodies ==
    {OkBody(p, v) : p \in Providers, v \in Versions}
        \cup {BadBody(k) : k \in {"unsupported", "syntax", "data"}}

Agents == {[version |-> v, provider |-> p] : v \in available_versions, p \in KnownProviders}

\* Json<CreateAgentRequest> as an extractor: it runs before the handler's body.
JsonRejection(b) ==
    CASE b.kind = "unsupported" -> UNSUPPORTED_MEDIA_TYPE
      [] b.kind = "syntax" -> BAD_REQUEST
      [] b.kind = "data" -> UNPROCESSABLE_ENTITY
      [] OTHER -> OK

\* create_agent: the answer and the agent stored afterwards.  A panic of an
\* expect() ends the request without an answer.
create_agent(stored, h, b) ==
    LET version == IF b.version = NoVersion THEN default_version ELSE b.version
    IN  IF JsonRejection(b) # OK
        THEN [status |-> JsonRejection(b), agent |-> stored]
        ELSE IF header_text(h) = NoneStr
        THEN [status |-> UNAUTHORIZED, agent |-> stored]
        ELSE IF header_text(h) # secret_key
        THEN [status |-> UNAUTHORIZED, agent |-> stored]
        ELSE IF b.provider \notin KnownProviders
        THEN [status |-> NoStatus, agent |-> stored]
        ELSE IF version \notin available_versions
        THEN [status |-> NoStatus, agent |-> stored]
        ELSE [status |-> OK, agent |-> [version |-> version, provider |-> b.provider]]

\* The service is up: AppState::new has run, with or without an agent.
InitRoutes ==
    /\ ReplyIdle
    /\ IdleBesidesRoutes
    /\ storedAgent \in Agents \cup {NoAgent}
    /\ request = NoRequest
    /\ status = NoStatus

notRoutes == <<replyVars, besidesRoutes>>

\* GET /agent/versions
GetVersions ==
    \E h \in Headers :
        /\ request' = [route |-> "GET /agent/versions", header |-> h, body |-> NoBody]
        /\ status' = OK
        /\ UNCHANGED <<notRoutes, storedAgent>>

\* GET /agent/providers
ListProviders ==
    \E h \in Headers :
        /\ request' = [route |-> "GET /agent/providers", header |-> h, body |-> NoBody]
        /\ status' = OK
        /\ UNCHANGED <<notRoutes, storedAgent>>

\* POST /agent
CreateAgent ==
    \E h \in Headers, b \in Bodies :
        LET r == create_agent(storedAgent, h, b)
        IN  /\ request' = [route |-> "POST /agent", header |-> h, body |-> b]
            /\ status' = r.status
            /\ storedAgent' = r.agent
            /\ UNCHANGED notRoutes

NextRoutes == GetVersions \/ ListProviders \/ CreateAgent

SpecRoutes == InitRoutes /\ [][NextRoutes]_vars

\* C24: every route of the agent service answers 401 to a request whose
\* X-Secret-Key header is absent or is not the configured secret.
C24_EveryRouteChecksSecret ==
    (request # NoRequest /\ request.header # secret_key) => status = UNAUTHORIZED

\* The part of C24 about POST /agent alone: a request answered 401 leaves the
\* stored agent as it was.
C24_RejectedPostKeepsAgent ==
    [][(request'.route = "POST /agent" /\ status' = UNAUTHORIZED)
          => storedAgent' = storedAgent]_vars

\* POST /agent with a well-formed body and no valid secret is answered 401.
C24_PostWithBodyChecksSecret ==
    (request.route = "POST /agent" /\ request.body.kind = "ok"
        /\ request.header # secret_key) => status = UNAUTHORIZED

\* ======================================================================
\* The text editor of the developer tools: DeveloperSystem
\* (crates/goose/src/developer.rs) and DeveloperRouter
\* (crates/goose-mcp/src/developer/mod.rs), working on one path.
\* ======================================================================

MaxText == 3
MaxEdits == 2

\* File contents and parameters are texts over two characters.
Chars == {"a", "b"}
Texts == SeqsUpTo(Chars, MaxText)
ShortTexts == SeqsUpTo(Chars, MaxText - 1)

Implementations == {"DeveloperSystem", "DeveloperRouter"}

\* Whether pat stands in content at position i.
MatchAt(content, pat, i) ==
    /\ i + Len(pat) - 1 <= Len(content)
    /\ SubSeq(content, i, i + Len(pat) - 1) = pat

\* content.matches(pat).count(): str::matches searches from the left and goes
\* on behind each match; the empty pattern matches at every boundary.
RECURSIVE MatchesFrom(_, _, _)
MatchesFrom(content, pat, i) ==
    IF pat = <<>> THEN Len(content) + 1
    ELSE IF i + Len(pat) - 1 > Len(content) THEN 0
    ELSE IF MatchAt(content, pat, i)
         THEN 1 + MatchesFrom(content, pat, i + Len(pat))
         ELSE MatchesFrom(content, pat, i + 1)

matches_count(content, pat) == MatchesFrom(content, pat, 1)

\* content.replace(old, new): every one of those matches is replaced.
RECURSIVE ReplaceFrom(_, _, _, _)
ReplaceFrom(content, old, new, i) ==
    IF i > Len(content) THEN IF old = <<>> THEN new ELSE <<>>
    ELSE IF old = <<>>
         THEN new \o <<content[i]>> \o ReplaceFrom(content, old, new, i + 1)
    ELSE IF MatchAt(content, old, i)
         THEN new \o ReplaceFrom(content, old, new, i + Len(old))
         ELSE <<content[i]>> \o ReplaceFrom(content, old, new, i + 1)

replace(content, old, new) == ReplaceFrom(content, old, new, 1)

\* save_file_history: the present content, or the empty text for a missing
\* file, is pushed onto the path's history.
save_file_history(exists, text, hist) ==
    Append(hist, IF exists THEN text ELSE <<>>)

\* What the file had in it before an edit.
Before(exists, text) == [exists |-> exists, text |-> IF exists THEN text ELSE <<>>]

\* A developer tool has been set up; the path holds a file or nothing.
InitEditor ==
    /\ ReplyIdle
    /\ IdleBesidesEditor
    /\ implementation \in Implementations
    /\ fileExists \in BOOLEAN
    /\ fileText \in (IF fileExists THEN Texts ELSE {<<>>})
    /\ file_history = <<>>
    /\ active = FALSE
    /\ command = NoCommand
    /\ editResult = "none"
    /\ edits = <<>>

notEditor == <<replyVars, besidesEditor, implementation>>

\* text_editor_view of a file within the size limits.  DeveloperSystem
\* makes the file an active resource, DeveloperRouter keeps none.
TextEditorView ==
    /\ command' = [name |-> "view", old_str |-> <<>>]
    /\ IF fileExists
       THEN /\ editResult' = "Ok"
            /\ active' = (implementation = "DeveloperSystem")
       ELSE /\ editResult' = "ExecutionError"
            /\ UNCHANGED active
    /\ UNCHANGED <<notEditor, fileExists, fileText, file_history, edits>>

\* Variant of TextEditorWrite: an existing file is overwritten whether it
\* is an active resource or not.
TextEditorWriteUnchecked ==
    \E file_text \in Texts :
        /\ Len(edits) < MaxEdits
        /\ command' = [name |-> "write", old_str |-> <<>>]
        /\ file_history' =
               IF implementation = "DeveloperSystem"
               THEN save_file_history(fileExists, fileText, file_history)
               ELSE file_history
        /\ fileExists' = TRUE
        /\ fileText' = file_text
        /\ active' = (implementation = "DeveloperSystem")
        /\ editResult' = "Ok"
        /\ edits' = Append(edits, Before(fileExists, fileText))
        /\ UNCHANGED notEditor

\* text_editor_write
TextEditorWrite ==
    \E file_text \in Texts :
        /\ Len(edits) < MaxEdits
        /\ command' = [name |-> "write", old_str |-> <<>>]
        /\ IF implementation = "DeveloperSystem" /\ fileExists /\ ~active
           THEN /\ editResult' = "InvalidParameters"
                /\ UNCHANGED <<fileExists, fileText, file_history, active, edits>>
           ELSE /\ file_history' =
                       IF implementation = "DeveloperSystem"
                       THEN save_file_history(fileExists, fileText, file_history)
                       ELSE file_history
                /\ fileExists' = TRUE
                /\ fileText' = file_text
                /\ active' = (implementation = "DeveloperSystem")
                /\ editResult' = "Ok"
                /\ edits' = Append(edits, Before(fileExists, fileText))
        /\ UNCHANGED notEditor

\* text_editor_replace
TextEditorReplace ==
    \E old_str \in ShortTexts, new_str \in ShortTexts :
        /\ Len(edits) < MaxEdits
        /\ Len(replace(fileText, old_str, new_str)) <= MaxText
        /\ command' = [name |-> "str_replace", old_str |-> old_str]
        /\ IF \/ ~fileExists
              \/ implementation = "DeveloperSystem" /\ ~active
              \/ matches_count(fileText, old_str) > 1
              \/ matches_count(fileText, old_str) = 0
           THEN /\ editResult' = "InvalidParameters"
                /\ UNCHANGED <<fileExists, fileText, file_history, active, edits>>
           ELSE /\ file_history' = save_file_history(fileExists, fileText, file_history)
                /\ fileText' = replace(fileText, old_str, new_str)
                /\ editResult' = "Ok"
                /\ edits' = Append(edits, Before(fileExists, fileText))
                /\ UNCHANGED <<fileExists, active>>
        /\ UNCHANGED notEditor

\* text_editor_undo
TextEditorUndo ==
    /\ command' = [name |-> "undo_edit", old_str |-> <<>>]
    /\ IF file_history # <<>>
       THEN /\ file_history' = Front(file_history)
            /\ fileExists' = TRUE
            /\ fileText' = Last(file_history)
            /\ editResult' = "Ok"
            /\ edits' = IF edits = <<>> THEN edits ELSE Front(edits)
       ELSE /\ editResult' = "InvalidParameters"
            /\ UNCHANGED <<fileExists, fileText, file_history, edits>>
    /\ UNCHANGED <<notEditor, active>>

NextEditor == TextEditorView \/ TextEditorWrite \/ TextEditorReplace \/ TextEditorUndo

SpecEditor == InitEditor /\ [][NextEditor]_vars

\* The places of content at which pat occurs.
Occurrences(content, pat) ==
    {i \in 1..(Len(content) + 1) : MatchAt(content, pat, i)}

\* C25: str_replace with an old_str that occurs at no place or at two or
\* more places of the file returns InvalidParameters and leaves the file and
\* the path's undo history as they were.
C25_ReplaceNeedsOneOccurrence ==
    [][(command'.name = "str_replace"
            /\ Cardinality(Occurrences(fileText, command'.old_str)) # 1)
          => (editResult' = "InvalidParameters"
                /\ UNCHANGED <<fileExists, fileText, file_history>>)]_vars

\* The same with occurrences counted as str::matches counts them: from the
\* left, each match beginning behind the one before.
C25_ReplaceNeedsOneMatch ==
    [][(command'.name = "str_replace"
            /\ matches_count(fileText, command'.old_str) # 1)
          => (editResult' = "InvalidParameters"
                /\ UNCHANGED <<fileExists, fileText, file_history>>)]_vars

\* C26: undo_edit restores what the file held before the latest edit not yet
\* undone (so k undos after k edits restore what it held before the first);
\* with no such edit it returns InvalidParameters and leaves the file alone.
C26_UndoRestoresBeforeLastEdit ==
    [][command'.name = "undo_edit"
          => IF edits # <<>>
             THEN editResult' = "Ok" /\ fileText' = Last(edits).text
                    /\ edits' = Front(edits)
             ELSE editResult' = "InvalidParameters"
                    /\ UNCHANGED <<fileExists, fileText>>]_vars

\* C26 for DeveloperSystem alone.
C26_UndoRestoresInDeveloperSystem ==
    [][(implementation = "DeveloperSystem" /\ command'.name = "undo_edit")
          => IF edits # <<>>
             THEN editResult' = "Ok" /\ fileText' = Last(edits).text
                    /\ edits' = Front(edits)
             ELSE editResult' = "InvalidParameters"
                    /\ UNCHANGED <<fileExists, fileText>>]_vars

\* ======================================================================
\* The view command of DeveloperSystem's text editor and its size limits
\* (crates/goose/src/developer.rs, text_editor_view).
\* ======================================================================

MAX_FILE_SIZE == 2 * 1024 * 1024
MAX_CHAR_COUNT == 1048576

\* Sizes around the two limits.  A text of c characters takes between c and
\* 4 * c bytes in UTF-8.
ByteSizes ==
    {0, 1, MAX_CHAR_COUNT \div 2, MAX_CHAR_COUNT - 1, MAX_CHAR_COUNT, MAX_CHAR_COUNT + 1,
     MAX_FILE_SIZE - 1,
     MAX_FILE_SIZE, MAX_FILE_SIZE + 1, 3 * 1024 * 1024, 4 * MAX_CHAR_COUNT + 4}
CharCounts ==
    {0, 1, MAX_CHAR_COUNT \div 4, MAX_CHAR_COUNT \div 2, MAX_CHAR_COUNT - 1, MAX_CHAR_COUNT,
     MAX_CHAR_COUNT + 1, MAX_FILE_SIZE - 1, MAX_FILE_SIZE, MAX_FILE_SIZE + 1, 3 * 1024 * 1024}

TextFile(b, c) == [is_file |-> TRUE, bytes |-> b, utf8 |-> TRUE, chars |-> c]
BinaryFile(b) == [is_file |-> TRUE, bytes |-> b, utf8 |-> FALSE, chars |-> 0]

\* What may be found at the path: nothing (or a directory), a text file, a
\* file that is no UTF-8.
Files ==
    {NoFile}
        \cup {TextFile(s[1], s[2]) :
                 s \in {t \in ByteSizes \X CharCounts : t[2] <= t[1] /\ t[1] <= 4 * t[2]}}
        \cup {BinaryFile(b) : b \in ByteSizes \ {0}}

CwdUri == "str:///cwd"
FileUri == "file:///path"

ExecutionError(msg) == [kind |-> "ExecutionError", message |-> msg]
TooLarge == "File is too large. Maximum size is 2MB to prevent memory issues."
TooManyChars == "File has too many characters. Maximum character count is 1048576."
OkView == [kind |-> "Ok", message |-> ""]

\* text_editor_view with the size test turned around at the limit.
text_editor_view_below(f, resources) ==
    IF ~f.is_file
    THEN [result |-> ExecutionError("The path does not exist or is not a file."),
          resources |-> resources]
    ELSE IF f.bytes >= MAX_FILE_SIZE
    THEN [result |-> ExecutionError(TooLarge), resources |-> resources]
    ELSE IF ~f.utf8
    THEN [result |-> ExecutionError("Failed to read file"), resources |-> resources]
    ELSE IF f.chars > MAX_CHAR_COUNT
    THEN [result |-> ExecutionError(TooManyChars), resources |-> resources]
    ELSE [result |-> OkView, resources |-> resources \cup {FileUri}]

\* text_editor_view: what it returns and the active resources afterwards.
text_editor_view(f, resources) ==
    IF ~f.is_file
    THEN [result |-> ExecutionError("The path does not exist or is not a file."),
          resources |-> resources]
    ELSE IF f.bytes > MAX_FILE_SIZE
    THEN [result |-> ExecutionError(TooLarge), resources |-> resources]
    ELSE IF ~f.utf8
    THEN [result |-> ExecutionError("Failed to read file"), resources |-> resources]
    ELSE IF f.chars > MAX_CHAR_COUNT
    THEN [result |-> ExecutionError(TooManyChars), resources |-> resources]
    ELSE [result |-> OkView, resources |-> resources \cup {FileUri}]

\* DeveloperSystem::new: the working directory is the one active resource.
InitView ==
    /\ ReplyIdle
    /\ IdleBesidesView
    /\ viewed = NoFile
    /\ active_resources = {CwdUri}
    /\ viewResult = NoViewResult

notView == <<replyVars, besidesView>>

\* The text editor is called with the command view.
View ==
    \E f \in Files :
        LET r == text_editor_view(f, active_resources)
        IN  /\ viewed' = f
            /\ viewResult' = r.result
            /\ active_resources' = r.resources
            /\ UNCHANGED notView

\* status(): the active resources whose file is gone are dropped.  The file
\* is gone when it was removed after the view.
Status ==
    /\ viewResult # NoViewResult
    /\ \E exists \in BOOLEAN :
           active_resources' = IF exists THEN active_resources
                               ELSE active_resources \ {FileUri}
    /\ UNCHANGED <<notView, viewed, viewResult>>

NextView == View \/ Status

SpecView == InitView /\ [][NextView]_vars

OverLimit(f) == f.is_file /\ (f.bytes > MAX_FILE_SIZE \/ (f.utf8 /\ f.chars > MAX_CHAR_COUNT))
NamesLimit(msg) ==
    \/ msg = TooLarge
    \/ msg = TooManyChars

\* C27: a view of a file over 2 MiB or over 2^20 characters returns an
\* ExecutionError naming the limit and adds nothing to the active resources;
\* a view of a text file of at most 2 MiB and at most 2^20 characters
\* succeeds.
C27_ViewSizeLimits ==
    [][(viewResult' # viewResult \/ viewed' # viewed) =>
          /\ OverLimit(viewed') =>
                /\ viewResult'.kind = "ExecutionError"
                /\ NamesLimit(viewResult'.message)
                /\ active_resources' = active_resources
          /\ (viewed'.is_file /\ viewed'.utf8 /\ ~OverLimit(viewed')) =>
                /\ viewResult' = OkView
                /\ FileUri \in active_resources']_vars

\* A file under 2 MiB with more than 2^20 characters has been turned down and
\* is not active; so has a file over 2 MiB.
C27_Witness ==
    /\ viewed.bytes < MAX_FILE_SIZE
    /\ viewed.chars > MAX_CHAR_COUNT
    /\ viewResult = ExecutionError(TooManyChars)
    /\ FileUri \notin active_resources

\* A file of exactly 2 MiB has been accepted.
C27_WitnessAtLimit ==
    /\ viewed.bytes = MAX_FILE_SIZE
    /\ viewed.chars <= MAX_CHAR_COUNT
    /\ viewResult = OkView
    /\ FileUri \in active_resources

\* ======================================================================
\* The capabilities lock of DefaultAgent: reply and the calls that may run
\* beside its stream (crates/goose/src/agents/default.rs, impl Agent).
\* ======================================================================

MaxRounds == 2

SystemName == "developer"

\* The agent has its systems; nothing runs.
InitLock ==
    /\ ReplyIdle
    /\ IdleBesidesLock
    /\ capabilitiesLock = "free"
    /\ streamPc = "none"
    /\ rounds = 0
    /\ callPc = [o \in AgentCalls |-> "idle"]
    /\ systems \in SUBSET {SystemName}

notLock == <<replyVars, besidesLock>>

\* reply: self.capabilities.lock().await, then the tools, the prompt, the
\* resources and prepare_inference; the guard is moved into the stream that
\* reply returns.
ReplyLocks ==
    /\ streamPc = "none"
    /\ capabilitiesLock = "free"
    /\ capabilitiesLock' = "reply"
    /\ streamPc' = "completing"
    /\ UNCHANGED <<notLock, rounds, callPc, systems>>

\* The stream is polled: the provider answers; with tool requests the calls
\* are dispatched and joined, without any the loop breaks.
StreamCompletes ==
    /\ streamPc = "completing"
    /\ \/ rounds < MaxRounds /\ streamPc' = "dispatching"
       \/ streamPc' = "ended"
    /\ UNCHANGED <<notLock, capabilitiesLock, rounds, callPc, systems>>

\* Every dispatched tool call has been answered by its extension; the
\* responses are yielded and the next inference is prepared.
StreamJoins ==
    /\ streamPc = "dispatching"
    /\ streamPc' = "completing"
    /\ rounds' = rounds + 1
    /\ UNCHANGED <<notLock, capabilitiesLock, callPc, systems>>

\* The caller drops the stream, when it has ended or before: the guard it
\* holds is dropped with it.
StreamDropped ==
    /\ streamPc \in {"completing", "dispatching", "ended"}
    /\ streamPc' = "dropped"
    /\ capabilitiesLock' = "free"
    /\ UNCHANGED <<notLock, rounds, callPc, systems>>

\* add_system, remove_system, list_systems or usage is called and waits for
\* the lock.
AgentCall(o) ==
    /\ callPc[o] = "idle"
    /\ callPc' = [callPc EXCEPT ![o] = "waiting"]
    /\ UNCHANGED <<notLock, capabilitiesLock, streamPc, rounds, systems>>

\* self.capabilities.lock().await returns.
AgentCallLocks(o) ==
    /\ callPc[o] = "waiting"
    /\ capabilitiesLock = "free"
    /\ capabilitiesLock' = o
    /\ callPc' = [callPc EXCEPT ![o] = "holding"]
    /\ UNCHANGED <<notLock, streamPc, rounds, systems>>

\* The call does its work on the capabilities and returns; its guard drops.
AgentCallReturns(o) ==
    /\ callPc[o] = "holding"
    /\ capabilitiesLock' = "free"
    /\ callPc' = [callPc EXCEPT ![o] = "done"]
    /\ systems' = CASE o = "add_system" -> systems \cup {SystemName}
                    [] o = "remove_system" -> systems \ {SystemName}
                    [] OTHER -> systems
    /\ UNCHANGED <<notLock, streamPc, rounds>>

Calling == \E o \in AgentCalls : AgentCall(o)
CallLocking == \E o \in AgentCalls : AgentCallLocks(o)
CallReturning == \E o \in AgentCalls : AgentCallReturns(o)

NextLock ==
    \/ ReplyLocks
    \/ StreamCompletes
    \/ StreamJoins
    \/ StreamDropped
    \/ Calling
    \/ CallLocking
    \/ CallReturning

SpecLock == InitLock /\ [][NextLock]_vars

\* C28: while the stream awaits its dispatched tool calls, reply does not
\* hold the capabilities lock, and a call waiting for the lock can take it.
C28_DispatchLeavesLockFree ==
    streamPc = "dispatching" =>
        /\ capabilitiesLock # "reply"
        /\ \A o \in AgentCalls :
               (callPc[o] = "waiting" /\ capabilitiesLock \notin AgentCalls)
                   => ENABLED AgentCallLocks(o)

\* No call beside the stream gets the lock between reply's taking it and the
\* dropping of the stream.
C28_CallsWaitForTheStream ==
    [][\A o \in AgentCalls :
          (callPc[o] = "waiting" /\ callPc'[o] = "holding")
              => streamPc \in {"none", "dropped"}]_vars

\* ======================================================================
\* The channel-based StdioTransport: connect spawns the child, a monitor
\* task, a stdout reader task and a stdin writer task
\* (crates/mcp-client/src/stdio_transport.rs).
\* ======================================================================

MaxOutput == 2
MaxWrites == 1
TransportChannelCapacity == 100

\* Exit statuses: success, failure, death by a signal.
ExitStatuses == {0, 1, 137}
Running == [state |-> "running", status |-> 0]
Exited(st) == [state |-> "exited", status |-> st]

\* Lines on the child's stdout: JSON-RPC messages, or text that is none.
OutputLines == {"message a", "message b", "garbage"}

OkItem(line) == [kind |-> "Ok", text |-> line]
ErrorItem(text) == [kind |-> "Err", text |-> text]
EndOfStream == [kind |-> "None", text |-> ""]

\* serde_json::from_str::<JsonRpcMessage>(&line), as an item for the channel.
parse_line(line) ==
    IF line = "garbage" THEN ErrorItem("expected value") ELSE OkItem(line)

TerminatedNormally == "Child process terminated normally with status"
TerminatedWithError == "Child process terminated with error status"

\* The message monitor_child makes of an exit status.
termination_message(st) ==
    IF st = 0 THEN TerminatedNormally ELSE TerminatedWithError

\* connect has returned: the child runs, the three tasks are spawned, the
\* caller holds both streams.
InitTransport ==
    /\ ReplyIdle
    /\ IdleBesidesTransport
    /\ tChild = Running
    /\ tStdout = <<>>
    /\ wrote = 0
    /\ rx_read = <<>>
    /\ rxOpen = TRUE
    /\ rx_write = <<>>
    /\ txOpen = TRUE
    /\ monitorPc = "waiting"
    /\ readerTask = "reading"
    /\ writerTask = "receiving"
    /\ delivered = <<>>
    /\ stdinGot = 0

notTransport == <<replyVars, besidesTransport>>

\* The child writes a line to its stdout.
ChildPrints ==
    /\ tChild = Running
    /\ wrote < MaxOutput
    /\ \E line \in OutputLines : tStdout' = Append(tStdout, line)
    /\ wrote' = wrote + 1
    /\ UNCHANGED <<notTransport, tChild, rx_read, rxOpen, rx_write, txOpen, monitorPc,
                   readerTask, writerTask, delivered, stdinGot>>

\* The child process exits.
ChildTerminates ==
    /\ tChild = Running
    /\ \E st \in ExitStatuses : tChild' = Exited(st)
    /\ UNCHANGED <<notTransport, tStdout, wrote, rx_read, rxOpen, rx_write, txOpen,
                   monitorPc, readerTask, writerTask, delivered, stdinGot>>

\* monitor_child without its send.
MonitorChildSilent ==
    /\ monitorPc = "waiting"
    /\ tChild.state = "exited"
    /\ monitorPc' = "done"
    /\ UNCHANGED <<notTransport, tChild, tStdout, wrote, rx_read, rxOpen, rx_write, txOpen,
                   readerTask, writerTask, delivered, stdinGot>>

\* monitor_child: child.wait() has returned the status; the error item is
\* sent on the read channel (the send's result is ignored), the task ends.
MonitorChild ==
    /\ monitorPc = "waiting"
    /\ tChild.state = "exited"
    /\ Len(rx_read) < TransportChannelCapacity
    /\ rx_read' = IF rxOpen
                  THEN Append(rx_read, ErrorItem(termination_message(tChild.status)))
                  ELSE rx_read
    /\ monitorPc' = "done"
    /\ UNCHANGED <<notTransport, tChild, tStdout, wrote, rxOpen, rx_write, txOpen,
                   readerTask, writerTask, delivered, stdinGot>>

\* The reader task reads one line, parses it and sends the item.  A failed
\* send of a message ends the task, a failed send of a parse error does not.
ReaderTaskLine ==
    /\ readerTask = "reading"
    /\ tStdout # <<>>
    /\ Len(rx_read) < TransportChannelCapacity
    /\ tStdout' = Tail(tStdout)
    /\ rx_read' = IF rxOpen THEN Append(rx_read, parse_line(Head(tStdout))) ELSE rx_read
    /\ readerTask' = IF ~rxOpen /\ parse_line(Head(tStdout)).kind = "Ok"
                     THEN "done" ELSE "reading"
    /\ UNCHANGED <<notTransport, tChild, wrote, rxOpen, rx_write, txOpen, monitorPc,
                   writerTask, delivered, stdinGot>>

\* The reader task finds the end of the child's stdout.
ReaderTaskEof ==
    /\ readerTask = "reading"
    /\ tStdout = <<>>
    /\ tChild.state = "exited"
    /\ readerTask' = "done"
    /\ UNCHANGED <<notTransport, tChild, tStdout, wrote, rx_read, rxOpen, rx_write, txOpen,
                   monitorPc, writerTask, delivered, stdinGot>>

\* The caller sends a message on the write stream.
StreamSend ==
    /\ txOpen
    /\ writerTask = "receiving"
    /\ stdinGot + Len(rx_write) < MaxWrites
    /\ rx_write' = Append(rx_write, "request")
    /\ UNCHANGED <<notTransport, tChild, tStdout, wrote, rx_read, rxOpen, txOpen, monitorPc,
                   readerTask, writerTask, delivered, stdinGot>>

\* The writer task takes a message and writes it to the child's stdin; the
\* write fails, and the task ends, when the child is gone.
WriterTaskWrites ==
    /\ writerTask = "receiving"
    /\ rx_write # <<>>
    /\ rx_write' = Tail(rx_write)
    /\ IF tChild = Running
       THEN stdinGot' = stdinGot + 1 /\ UNCHANGED writerTask
       ELSE writerTask' = "done" /\ UNCHANGED stdinGot
    /\ UNCHANGED <<notTransport, tChild, tStdout, wrote, rx_read, rxOpen, txOpen, monitorPc,
                   readerTask, delivered>>

\* The caller drops the write stream; the writer task's recv returns None
\* once the channel is empty.
StreamSendDropped ==
    /\ txOpen
    /\ txOpen' = FALSE
    /\ UNCHANGED <<notTransport, tChild, tStdout, wrote, rx_read, rxOpen, rx_write,
                   monitorPc, readerTask, writerTask, delivered, stdinGot>>

WriterTaskEnds ==
    /\ writerTask = "receiving"
    /\ ~txOpen
    /\ rx_write = <<>>
    /\ writerTask' = "done"
    /\ UNCHANGED <<notTransport, tChild, tStdout, wrote, rx_read, rxOpen, rx_write, txOpen,
                   monitorPc, readerTask, delivered, stdinGot>>

\* The caller receives the next item of the read stream.
StreamRecv ==
    /\ rxOpen
    /\ rx_read # <<>>
    /\ delivered' = Append(delivered, Head(rx_read))
    /\ rx_read' = Tail(rx_read)
    /\ UNCHANGED <<notTransport, tChild, tStdout, wrote, rxOpen, rx_write, txOpen,
                   monitorPc, readerTask, writerTask, stdinGot>>

\* Both senders are gone and the channel is empty: recv returns None.
StreamRecvNone ==
    /\ rxOpen
    /\ rx_read = <<>>
    /\ monitorPc = "done"
    /\ readerTask = "done"
    /\ IF delivered = <<>> THEN TRUE ELSE Last(delivered) # EndOfStream
    /\ delivered' = Append(delivered, EndOfStream)
    /\ UNCHANGED <<notTransport, tChild, tStdout, wrote, rx_read, rxOpen, rx_write, txOpen,
                   monitorPc, readerTask, writerTask, stdinGot>>

\* The caller drops the read stream; what is queued is lost.
StreamRecvDropped ==
    /\ rxOpen
    /\ rxOpen' = FALSE
    /\ rx_read' = <<>>
    /\ UNCHANGED <<notTransport, tChild, tStdout, wrote, rx_write, txOpen, monitorPc,
                   readerTask, writerTask, delivered, stdinGot>>

NextTransport ==
    \/ ChildPrints
    \/ ChildTerminates
    \/ MonitorChild
    \/ ReaderTaskLine
    \/ ReaderTaskEof
    \/ StreamSend
    \/ WriterTaskWrites
    \/ StreamSendDropped
    \/ WriterTaskEnds
    \/ StreamRecv
    \/ StreamRecvNone
    \/ StreamRecvDropped

SpecTransport == InitTransport /\ [][NextTransport]_vars

\* The tasks are spawned on the runtime and run when they can; the caller
\* goes on receiving for as long as it holds the read stream.
SpecTransportLive ==
    /\ SpecTransport
    /\ WF_vars(MonitorChild)
    /\ WF_vars(ReaderTaskLine)
    /\ WF_vars(ReaderTaskEof)
    /\ WF_vars(WriterTaskWrites)
    /\ WF_vars(StreamRecv)

TerminationItems == {ErrorItem(TerminatedNormally), ErrorItem(TerminatedWithError)}
DeliveredItems == {delivered[i] : i \in 1..Len(delivered)}
QueuedItems == {rx_read[i] : i \in 1..Len(rx_read)}

\* C29: once the child has exited, the read stream (unless it is dropped)
\* delivers an Err item reporting the termination, and such an item says
\* "terminated normally" for status 0 and "terminated with error status" for
\* any other.
C29_ChildExitIsReported ==
    /\ [](\A item \in (DeliveredItems \cup QueuedItems) \cap TerminationItems :
              /\ tChild.state = "exited"
              /\ item.text = TerminatedNormally <=> tChild.status = 0)
    /\ (tChild.state = "exited") ~>
           (~rxOpen \/ DeliveredItems \cap TerminationItems # {})

\* The child printed a line and exited with status 0; the stream delivered
\* the line's item and the report of a normal termination.
C29_Witness ==
    /\ tChild = Exited(0)
    /\ rxOpen
    /\ wrote > 0
    /\ ErrorItem(TerminatedNormally) \in DeliveredItems
    /\ Len(delivered) >= 2

\* ======================================================================
\* build_session and the choice of the session file
\* (crates/goose-cli/src/commands/session.rs).
\* ======================================================================

max_attempts == 5

\* Names a user may give, and names random_session_name may return.
GivenNames == {"mine"}
RandomNames == {"r1", "r2"}
FileNames == GivenNames \cup RandomNames

\* build_session is called; some session files exist.
InitBuild ==
    /\ ReplyIdle
    /\ IdleBesidesBuild
    /\ session \in GivenNames \cup {NoName}
    /\ resume \in BOOLEAN
    /\ existing \in SUBSET FileNames
    /\ buildPc = "called"
    /\ session_file = NoName
    /\ attempts = 0

notBuild == <<replyVars, besidesBuild, session, resume, existing>>

\* session_path(session, dir, session.is_none() && !resume): the name given or
\* a random one; a random name of a new session that is taken is given up.
SessionPath ==
    /\ buildPc = "called"
    /\ \E random \in RandomNames :
           LET session_name == IF session = NoName THEN random ELSE session
               retry_on_conflict == session = NoName /\ ~resume
           IN  IF session_name \in existing /\ retry_on_conflict
               THEN buildPc' = "generating" /\ UNCHANGED session_file
               ELSE buildPc' = "chosen" /\ session_file' = session_name
    /\ UNCHANGED <<notBuild, attempts>>

\* One round of the loop of generate_new_session_path.
GenerateNewSessionPath ==
    /\ buildPc = "generating"
    /\ \E generated_name \in RandomNames :
           IF generated_name \notin existing
           THEN /\ session_file' = generated_name
                /\ buildPc' = "chosen"
                /\ UNCHANGED attempts
           ELSE /\ attempts' = attempts + 1
                /\ buildPc' = IF attempts + 1 >= max_attempts THEN "panicked" ELSE "generating"
                /\ UNCHANGED session_file
    /\ UNCHANGED notBuild

\* The guards of build_session with the second one left out.
GuardsResumeOnly ==
    /\ buildPc = "chosen"
    /\ buildPc' = IF resume /\ session_file \notin existing THEN "panicked" ELSE "guarded"
    /\ UNCHANGED <<notBuild, session_file, attempts>>

\* The two guards of build_session.
Guards ==
    /\ buildPc = "chosen"
    /\ buildPc' = IF resume /\ session_file \notin existing THEN "panicked"
                  ELSE IF ~resume /\ session_file \in existing THEN "panicked"
                  ELSE "guarded"
    /\ UNCHANGED <<notBuild, session_file, attempts>>

\* The profile and the provider are loaded (the process exits without a
\* profile, get_provider's unwrap may panic) and the Session is built.
BuildSession ==
    /\ buildPc = "guarded"
    /\ buildPc' \in {"exited", "panicked", "built"}
    /\ UNCHANGED <<notBuild, session_file, attempts>>

NextBuild == SessionPath \/ GenerateNewSessionPath \/ Guards \/ BuildSession

SpecBuild == InitBuild /\ [][NextBuild]_vars

PastGuards == buildPc \in {"guarded", "exited", "built"}

\* C30: build_session gets past its guards, and builds a Session, only when
\* resume is set and the session file exists or resume is not set and the
\* file does not exist; and when the name is generated, the file chosen is
\* never one that exists.
C30_BuildSessionGuards ==
    /\ PastGuards => (resume <=> session_file \in existing)
    /\ (session = NoName /\ buildPc \in {"chosen", "guarded", "exited", "built"})
           => session_file \notin existing

\* C30 with its last part said of new sessions: when the name is generated
\* for a session that is not resumed, the file chosen is never one that
\* exists.
C30_BuildSessionGuardsNewNames ==
    /\ PastGuards => (resume <=> session_file \in existing)
    /\ (session = NoName /\ ~resume /\ buildPc \in {"chosen", "guarded", "exited", "built"})
           => session_file \notin existing

\* A new session without a name: the first random name was taken, another
\* was generated, and the Session was built on a file that did not exist.
C30_Witness ==
    /\ session = NoName
    /\ ~resume
    /\ buildPc = "built"
    /\ attempts > 0
    /\ session_file \notin existing

\* ======================================================================
\* The working history of DefaultAgent::reply and its strip step.
\* ======================================================================

\* The two messages prepare_inference appends for the status.
IsStatusPair(use, result) ==
    /\ use = StatusRequest
    /\ result.role = "user"
    /\ Len(result.content) = 1
    /\ result.content[1].type = "tool_response"
    /\ result.content[1].id = "000"
    /\ result.content[1].result.of = "status"

EndsWithStatusPair(msgs) ==
    /\ Len(msgs) >= 2
    /\ IsStatusPair(msgs[Len(msgs) - 1], msgs[Len(msgs)])

\* The list is the caller's history and what was yielded, with or without
\* one status pair behind it.
IsHistoryAndYielded(msgs) ==
    \E h \in InitialHistories :
        LET base == h \o <<UserText>> \o MessagesOf(yielded)
        IN  \/ msgs = base
            \/ /\ EndsWithStatusPair(msgs)
               /\ msgs = base \o SubSeq(msgs, Len(msgs) - 1, Len(msgs))

\* C31: whenever DefaultAgent::reply is about to call provider.complete, its
\* message list is the caller's history, then every message yielded so far
\* in order, then at most one status pair.
C31_CompleteSeesHistoryAndYielded ==
    (agent = "default" /\ pc = "Completing") => IsHistoryAndYielded(messages)

\* C31 for replies in which the provider has not used the id "000" for a
\* request of its own.
C31_CompleteSeesHistoryUnlessIdClash ==
    (agent = "default" /\ pc = "Completing"
        /\ \A k \in 1..Len(yielded) :
              \A i \in 1..Len(yielded[k].msg.content) :
                  yielded[k].msg.content[i].id # "000")
        => IsHistoryAndYielded(messages)

\* C32: what the strip step of DefaultAgent::reply removes is a status pair
\* that prepare_inference appended.
C32_StripRemovesOnlyStatusPair ==
    [][(agent = "default" /\ pc = "YieldedResponse" /\ pc' # "YieldedResponse"
            /\ StripStatus(messages) # messages)
          => EndsWithStatusPair(messages)]_vars

\* C33: when the strip step runs, the last message of the working history
\* has a first content block to read.
C33_StripReadsFirstBlock ==
    (agent = "default" /\ pc = "YieldedResponse" /\ messages # <<>>)
        => Last(messages).content # <<>>

\* ======================================================================
\* The stdio actor's writer and reader: registration, write failures and
\* lines that are no responses.
\* ======================================================================

\* The fair specification of the stdio actor: the actor task is scheduled,
\* so its reader consumes a line that stands in the pipe.
SpecStdioLive == SpecStdio /\ WF_vars(ReaderLine)

\* the requests whose sender has been put into the pending map
Registered == {c \in Callers : RequestId(c) \in DOMAIN pending_requests \/ removed[c] >= 1}

\* C34: the sender of a request is in the pending map before the request's
\* bytes reach the child, so in every interleaving the reader finds the
\* response of a request the child has read either registered or already
\* removed, never not yet registered.
C34_RegisteredBeforeWritten ==
    /\ [](childIn \subseteq Registered)
    /\ [](writerPc = "write" => writerMsg \in Registered)
    /\ [][\A c \in Callers :
            (/\ childOut # <<>>
             /\ Head(childOut) = ResponseLine(RequestId(c))
             /\ childOut' = Tail(childOut)
             /\ removed[c] = 0)
            => /\ RequestId(c) \in DOMAIN pending_requests
               /\ removed'[c] = 1]_vars

\* the reader has delivered the response of the first request while the
\* writer stands between registering and writing the second
C34_Witness ==
    /\ actorPc = "running"
    /\ callerState[1] = "answered"
    /\ writerPc = "write"
    /\ writerMsg = 2
    /\ RequestId(2) \in DOMAIN pending_requests
    /\ 2 \notin childIn

\* C35: a failed write or flush clears the whole pending map, the request
\* registered just before included, no caller is left waiting, and the
\* writer takes nothing from the send queue afterwards.
C35_WriteFailureClosesAll ==
    /\ [][(writerPc = "write" /\ writerPc' = "done")
            => /\ writerMsg \in DOMAIN pending_requests
               /\ pending_requests' = EmptyMap
               /\ \A c \in Callers : callerState[c] = "waiting" => callerState'[c] = "closed"]_vars
    /\ [][writerPc = "done"
            => /\ writerPc' = "done"
               /\ sendQueue' = sendQueue
               /\ childIn' = childIn]_vars

\* a write failed while one caller waited for the request being written and
\* another for a request written before
C35_Witness ==
    /\ writerPc = "done"
    /\ actorPc = "running"
    /\ pending_requests = EmptyMap
    /\ childIn = {1}
    /\ callerState[1] = "closed"
    /\ callerState[2] = "closed"
    /\ removed[1] = 1
    /\ removed[2] = 1

\* the reader is about to read a line that is no Response with an id; the
\* response of the waiting caller c stands on the next line
OtherThenResponse(c) ==
    /\ actorPc = "running"
    /\ readerPc = "reading"
    /\ Len(childOut) >= 2
    /\ childOut[1] = OtherLine
    /\ childOut[2] = ResponseLine(RequestId(c))
    /\ RequestId(c) \in DOMAIN pending_requests
    /\ callerState[c] = "waiting"

\* C36: a line that is no valid JSON-RPC message, and a message that is no
\* Response with an id, leave the pending map and every caller as they are
\* and the reader reading; the response on a later line is delivered to its
\* caller (unless the caller has given up or the transport was closed
\* meanwhile).
C36_OtherLinesAreSkipped ==
    /\ [][(/\ actorPc = "running"
           /\ readerPc = "reading"
           /\ childOut # <<>>
           /\ Head(childOut) = OtherLine
           /\ childOut' = Tail(childOut))
          => /\ UNCHANGED <<pending_requests, callerState, callerGot, readerPc>>
             /\ actorPc' = "running"]_vars
    /\ \A c \in Callers :
          OtherThenResponse(c) ~>
              \/ callerState[c] = "answered" /\ callerGot[c] = RequestId(c)
              \/ callerState[c] \in {"gone", "closed"}

\* the response that stood behind a line that is no Response is about to be
\* delivered: the reader went on after skipping that line
C36_Witness ==
    /\ actorPc = "running"
    /\ readerPc = "reading"
    /\ emitted = 2
    /\ Len(childOut) = 1
    /\ childIn = {1}
    /\ childOut[1] = ResponseLine(RequestId(1))
    /\ callerState[1] = "waiting"
    /\ removed[1] = 0

\* ======================================================================
\* Order of the child's messages and the termination item on the read
\* stream of the channel-based StdioTransport.
\* ======================================================================

\* C37: when the read stream delivers the item that reports the child's
\* termination, every message the child wrote before exiting has been
\* delivered already: no message is delivered behind it, waits in the
\* channel or stands unread in the pipe.
C37_MessagesBeforeTermination ==
    \A i \in 1..Len(delivered) :
        delivered[i] \in TerminationItems =>
            /\ \A j \in (i + 1)..Len(delivered) : delivered[j].kind # "Ok"
            /\ \A q \in 1..Len(rx_read) : rx_read[q].kind # "Ok"
            /\ \A l \in 1..Len(tStdout) : parse_line(tStdout[l]).kind # "Ok"

\* ======================================================================
\* The agent task of Session::agent_process_messages after an interrupt.
\* ======================================================================

\* C38: after the user's interrupt the spawned agent task ends by taking the
\* abort branch; it never sends on the message channel once the receiver
\* is gone, so its unwrap of the send never panics.
C38_TaskEndsByAbort ==
    sessPc = "cancelled" => pc # "Panicked"

\* ======================================================================
\* The journal of a Session that is not cancelled.
\* ======================================================================

EditorStatus ==
    /\ implementation = "DeveloperSystem"
    /\ command' = [name |-> "status", old_str |-> <<>>]
    /\ active' = (active /\ fileExists)
    /\ editResult' = "Ok"
    /\ UNCHANGED <<notEditor, fileExists, fileText, file_history, edits>>

\* The file is removed by something other than the text editor.
FileRemoved ==
    /\ fileExists
    /\ command' = [name |-> "rm", old_str |-> <<>>]
    /\ fileExists' = FALSE
    /\ fileText' = <<>>
    /\ editResult' = "none"
    /\ UNCHANGED <<notEditor, file_history, active, edits>>

NextEditorFiles == NextEditor \/ EditorStatus \/ FileRemoved

SpecEditorFiles == InitEditor /\ [][NextEditorFiles]_vars

\* C40: in DeveloperSystem a write to an existing file and a str_replace are
\* rejected with InvalidParameters when the file is not among the active
\* resources, and the rejected command leaves the file, its undo history
\* and the active resources as they were; a file becomes active only by a
\* successful view or write and stops being active only when status()
\* finds it gone.
C40_EditsNeedActiveFile ==
    /\ [][(/\ implementation = "DeveloperSystem"
           /\ ~active
           /\ \/ command'.name = "write" /\ fileExists
              \/ command'.name = "str_replace")
          => /\ editResult' = "InvalidParameters"
             /\ UNCHANGED <<fileExists, fileText, file_history, active>>]_vars
    /\ [][(implementation = "DeveloperSystem" /\ editResult' = "InvalidParameters")
          => UNCHANGED <<fileExists, fileText, file_history, active>>]_vars
    /\ [][(active' /\ ~active)
          => /\ command'.name \in {"view", "write"}
             /\ editResult' = "Ok"]_vars
    /\ [][(active /\ ~active')
          => /\ command'.name = "status"
             /\ ~fileExists]_vars

\* a file written through the editor was removed and pruned by status(),
\* came back by undo_edit, and the write to it was rejected
C40_Witness ==
    /\ implementation = "DeveloperSystem"
    /\ command.name = "write"
    /\ editResult = "InvalidParameters"
    /\ fileExists
    /\ ~active
    /\ edits # <<>>

\* the str_replace on a file that exists and was never viewed was rejected
C40_WitnessReplace ==
    /\ implementation = "DeveloperSystem"
    /\ command.name = "str_replace"
    /\ editResult = "InvalidParameters"
    /\ fileExists
    /\ ~active
    /\ matches_count(fileText, command.old_str) = 1

====
